---- MODULE Spec2Model ----
(***************************************************************************)
(* Relay core of the agent protocol gateway: the ConfigStore (targets and  *)
(* RBAC policies), the ConnectionPool of the MCP Relay, the MCP            *)
(* ServerHandler methods of the Relay, and the A2A handlers, each of which *)
(* builds its own Relay (and pool) per request.                            *)
(*                                                                         *)
(* Names are strings modelled as sequences of one-character strings, so    *)
(* that format!("{}:{}") and split_once(':') are computed, not assumed.    *)
(***************************************************************************)
EXTENDS Integers, Sequences, FiniteSets, TLC

\* ------------------------------------------------------------------ bounds
\* Number of Target objects the configuration plane may insert in one run.
MaxVer == 2
\* Number of A2A requests that can be in flight at the same time.
MaxA2a == 3
\* Number of listener tasks the ListenerManager may spawn in one run.
MaxTasks == 2
\* Capacity of the update channel.
MaxQueue == 1
\* Number of skills on an upstream agent card.
MaxSkills == 2
\* Number of events on an upstream SSE stream.
MaxEvents == 3
\* Capacity of the channel between the SSE reader and the client (64 in the
\* program).
ChanCap == 2
\* Number of items (operations, parameters, request bodies) in an OpenAPI
\* document.
MaxDocSize == 3
\* Number of entries of a type array.
MaxTypes == 3
\* Number of schemas nested in one another.
MaxNodes == 3
\* Number of call frames the stack of the resolving thread has room for.
MaxDepth == 5

\* ------------------------------------------------------------------ names
Colon == ":"

TA == <<"a">>
TB == <<"b">>

\* Target names the configuration plane can use.
Names == {TA, TB}

\* The order in which the pool enumerates targets (target-name order).
NameOrder == <<TA, TB>>

\* Target kinds (TargetSpec variants).
Kinds == {"stdio", "sse", "openapi", "a2a"}

\* The kinds of target the configuration plane declares under each name.
KindsOf(n) == IF n = TA THEN {"stdio", "openapi"} ELSE {"sse", "a2a"}

\* Caller identities.
Identities == {"anon", "alice"}

NoTarget == [kind |-> "none", ver |-> 0]
NoUp == [kind |-> "none", ver |-> 0]

\* ------------------------------------------------------------------ strings
\* format!("{}:{}", target, inner)
Compose(target, inner) == target \o <<Colon>> \o inner

\* Positions of ':' in s.
ColonPositions(s) == {i \in 1..Len(s) : s[i] = Colon}

HasColon(s) == ColonPositions(s) # {}

\* Index of the first ':' of s (s has one).
FirstColon(s) == CHOOSE i \in ColonPositions(s) : \A j \in ColonPositions(s) : i <= j

\* str::split_once(':'): the text before and after the first ':', or none.
SplitOnce(s) ==
  IF HasColon(s)
    THEN [some |-> TRUE,
          head |-> SubSeq(s, 1, FirstColon(s) - 1),
          tail |-> SubSeq(s, FirstColon(s) + 1, Len(s))]
    ELSE [some |-> FALSE, head |-> <<>>, tail |-> <<>>]

\* ------------------------------------------------------------------ upstream content
\* What each upstream serves (inner names), by target name.
InnerTools(n) == IF n = TA THEN << <<"t">>, <<"u">> >> ELSE << <<"t">> >>
InnerPrompts(n) == << <<"t">> >>
InnerResources(n) == IF n = TA THEN << <<"t">> >> ELSE << <<"f", ":", "t">> >>
InnerTemplates(n) == << <<"t">> >>

\* Names a client may send to call_tool / get_prompt / read_resource.
ReqNames == { <<"t">> } \cup { Compose(n, <<"t">>) : n \in Names }

\* ------------------------------------------------------------------ RBAC
\* The rule sets the configuration plane can install, by name.
RuleSetNames == {"rs1", "rs2"}

\* A rule admits identity who for resource (rtype, id).
RuleSetRules(rs) ==
  IF rs = "rs1"
    THEN { [rtype |-> ty, id |-> Compose(n, <<"t">>), who |-> "alice"] :
             ty \in {"Tool", "Prompt", "Resource"}, n \in Names }
    ELSE { [rtype |-> ty, id |-> i, who |-> w] :
             ty \in {"Tool", "Prompt", "Resource"},
             i \in { <<"t">> }, w \in Identities }

\* policies.validate(resource, identity): some rule of some rule set matches.
Validate(pols, rtype, id, who) ==
  \E rs \in pols : \E rule \in RuleSetRules(rs) :
    rule.rtype = rtype /\ rule.id = id /\ rule.who = who

\* ------------------------------------------------------------------ state
VARIABLES
  targets,   \* ConfigStore.targets: name -> [kind, ver] (ver names the Target object)
  policies,  \* ConfigStore.policies: the installed rule sets
  nextVer,   \* the next Target object the configuration plane creates
  by_name,   \* the MCP Relay's ConnectionPool.by_name: name -> upstream [kind, ver]
  a2a,       \* A2A requests in flight: slot -> the pool of the Relay built for it
  last,      \* the request the MCP Relay handled last, and its outcome
  listeners, \* ConfigStore.listeners: the names of the listeners defined
  events,    \* update_rx: the UpdateEvents sent and not yet received
  closed,    \* every sender of the update channel has been dropped
  cancelled, \* the root CancellationToken is cancelled
  tasks,     \* every listener task spawned on run_set: id -> [name, st, joined]
  running,   \* ListenerManager.running: name -> id of the recorded task (0: none)
  mgr,       \* where the ListenerManager is in new / run / start_listener
  card,      \* the answer of the last A2A fetch_agent_card
  br,        \* the A2A proxy_request in progress: its Response and SSE reader
  oa,        \* an OpenAPI document and what the synthesizer made of it
  nz,        \* a 3.1 schema and what normalization made of it
  oa2,       \* what a second parse_openapi_schema made of the document of oa
  locks,     \* the ConfigStore lock, the pool lock and the tasks around them
  refs       \* a schema reference being resolved against a document's components

relayVars == <<targets, policies, nextVer, by_name, a2a, last>>

lmVars == <<listeners, events, closed, cancelled, tasks, running, mgr>>

\* The state of the components a step of the relay leaves alone.
brVars == <<card, br>>

oaVars == <<oa>>

nzVars == <<nz>>

detVars == <<oa2>>

lkVars == <<locks>>

rsVars == <<refs>>

\* The older components.
base == <<relayVars, lmVars, brVars, oaVars>>

\* The younger components.
restVars == <<nzVars, detVars, lkVars, rsVars>>

ext == <<lmVars, brVars, oaVars, restVars>>

\* What a step of the ListenerManager leaves alone.
notLm == <<relayVars, brVars, oaVars, restVars>>

\* What a step of the A2A relay leaves alone, the store apart.
notBr == <<nextVer, by_name, a2a, last, lmVars, oaVars, restVars>>

\* What the OpenAPI synthesizer leaves alone.
notOa == <<relayVars, lmVars, brVars, restVars>>

\* What normalization leaves alone.
notNz == <<base, detVars, lkVars, rsVars>>

\* What a second run of the synthesizer leaves alone.
notDet == <<base, nzVars, lkVars, rsVars>>

\* What a step around the locks leaves alone.
notLk == <<base, nzVars, detVars, rsVars>>

\* What a step of reference resolution leaves alone.
notRs == <<base, nzVars, detVars, lkVars>>

vars == <<relayVars, lmVars, brVars, oaVars, restVars>>

\* state.targets.get(name)
TargetOf(store, name) == IF name \in DOMAIN store THEN store[name] ELSE NoTarget

\* by_name.get(name)
PoolGet(pool, name) == IF name \in DOMAIN pool THEN pool[name] ELSE NoUp

\* ConnectionPool::new: an empty map.
EmptyPool == [n \in Names |-> NoUp]

Idle == [target |-> <<>>, up |-> NoUp]

InitLast ==
  [op |-> "none", caller |-> "anon", name |-> <<>>, result |-> "none",
   target |-> <<>>, up |-> NoUp, calls |-> <<>>, items |-> <<>>]

\* Relay::new over an empty store.
InitRelay ==
  /\ targets = [n \in Names |-> NoTarget]
  /\ policies = {}
  /\ nextVer = 1
  /\ by_name = EmptyPool
  /\ a2a = [s \in 1..MaxA2a |-> Idle]
  /\ last = InitLast

\* Listener names the configuration plane can use.
LNames == {"l1", "l2"}

\* ListenerManager::new before its loop over the listeners in the state:
\* an empty JoinSet and an empty running map.
MgrNew(todo) ==
  [pc |-> "new", ret |-> "new", todo |-> todo, name |-> "", id |-> 0,
   via |-> "none", old |-> 0]

InitLm(ls) ==
  /\ listeners = ls
  /\ events = <<>>
  /\ closed = FALSE
  /\ cancelled = FALSE
  /\ tasks = <<>>
  /\ running = [n \in LNames |-> 0]
  /\ mgr = MgrNew(ls)

\* No agent card fetched yet.
NoCard ==
  [caller |-> "anon", target |-> <<>>, upstream |-> <<>>, result |-> "none",
   skills |-> <<>>]

\* No proxy_request in progress.
BrIdle ==
  [result |-> "none", why |-> "none", hdr |-> [present |-> FALSE, value |-> <<>>],
   bodyOk |-> FALSE, reader |-> "none", evs |-> <<>>, upEnd |-> "none",
   pos |-> 0, chan |-> <<>>, delivered |-> <<>>, rx |-> FALSE]

InitBr ==
  /\ card = NoCard
  /\ br = BrIdle

\* No document has been synthesized.
NotParsed == [status |-> "none", err |-> "none", tools |-> <<>>]

InitOa == oa = [doc |-> [version |-> "3.0", paths |-> <<>>], result |-> NotParsed]

\* No schema has been normalized.
InitNz ==
  nz = [schema |-> [type |-> [array |-> FALSE, of |-> <<>>], nullable |-> FALSE,
                    pattern |-> "", items |-> <<>>, properties |-> <<>>,
                    composition |-> "none", branches |-> <<>>],
        out |-> <<>>, again |-> <<>>, pair |-> <<>>]

\* No second run of the synthesizer.
InitDet == oa2 = NotParsed

\* Both locks free, no request, the ListenerManager not yet built.
LkIdle ==
  [pc |-> [t \in {"h1", "h2", "mgr", "admin"} |-> IF t = "mgr" THEN "boot" ELSE "idle"],
   store |-> [readers |-> [t \in {"h1", "h2", "mgr", "admin"} |-> 0],
              writer |-> "none", queue |-> <<>>],
   pool |-> [readers |-> [t \in {"h1", "h2", "mgr", "admin"} |-> 0],
             writer |-> "none", queue |-> <<>>],
   cached |-> FALSE, todo |-> 0]

InitLk == locks = LkIdle

\* No reference is being resolved.
RsIdle ==
  [components |-> <<>>, cur |-> <<>>, pc |-> "idle", err |-> "none",
   calls |-> 0, chain |-> 0, tco |-> FALSE]

InitRs == refs = RsIdle

\* The younger components at rest.
InitRest ==
  /\ InitNz
  /\ InitDet
  /\ InitLk
  /\ InitRs

Init ==
  /\ InitRelay
  /\ InitLm({})
  /\ InitBr
  /\ InitOa
  /\ InitRest

\* ------------------------------------------------------------------ configuration plane
\* ProxyStateUpdateMutator::insert_target / admin targets_create_handler
InsertTarget(n, k) ==
  /\ nextVer <= MaxVer
  /\ targets' = [targets EXCEPT ![n] = [kind |-> k, ver |-> nextVer]]
  /\ nextVer' = nextVer + 1
  /\ UNCHANGED <<policies, by_name, a2a, last, ext>>

\* ProxyStateUpdateMutator::remove_target / admin targets_delete_handler
StoreRemoveTarget(n) ==
  /\ targets' = [targets EXCEPT ![n] = NoTarget]
  /\ UNCHANGED <<policies, nextVer, by_name, a2a, last, ext>>

\* ProxyStateUpdateMutator::insert_rbac
InsertRbac(rs) ==
  /\ policies' = policies \cup {rs}
  /\ UNCHANGED <<targets, nextVer, by_name, a2a, last, ext>>

\* ProxyStateUpdateMutator::remove_rbac
RemoveRbac(rs) ==
  /\ policies' = policies \ {rs}
  /\ UNCHANGED <<targets, nextVer, by_name, a2a, last, ext>>

\* ------------------------------------------------------------------ upstream
\* The UpstreamTarget variant built for a target kind.
Variant(kind) ==
  CASE kind \in {"stdio", "sse"} -> "Mcp"
    [] kind = "openapi" -> "OpenAPI"
    [] kind = "a2a" -> "A2a"
    [] OTHER -> "none"

\* Capability table of the UpstreamTarget variants.
Supports(kind, op) ==
  CASE Variant(kind) = "Mcp" -> op \notin {"fetch_agent_card", "proxy_a2a"}
    [] Variant(kind) = "OpenAPI" -> op \in {"list_tools", "call_tool"}
    [] Variant(kind) = "A2a" -> op \in {"fetch_agent_card", "proxy_a2a"}
    [] OTHER -> FALSE

\* ------------------------------------------------------------------ ConnectionPool
\* Target kinds the A2A pool's connect can build.
A2aKinds == {"a2a"}

\* Target kinds the MCP pool's connect can build.
McpKinds == Kinds

\* ConnectionPool::connect: insert an upstream built from target, unless the
\* kind is not supported or building it fails (connOk = FALSE).
Connect(pool, name, target, connOk, kinds) ==
  IF PoolGet(pool, name) # NoUp
    THEN [ok |-> TRUE, pool |-> pool]
    ELSE IF target.kind \in kinds /\ connOk
      THEN [ok |-> TRUE,
            pool |-> [pool EXCEPT ![name] = [kind |-> target.kind, ver |-> target.ver]]]
      ELSE [ok |-> FALSE, pool |-> pool]

\* A plausible bug: a failed connect leaves a dead entry in the map.
GetOrCreateCachesFailure(pool, store, name, connOk, kinds) ==
  IF PoolGet(pool, name) # NoUp
    THEN [ok |-> PoolGet(pool, name).kind # "failed", err |-> "cached",
          pool |-> pool, up |-> PoolGet(pool, name)]
    ELSE IF TargetOf(store, name) = NoTarget
      THEN [ok |-> FALSE, err |-> "target_not_found", pool |-> pool, up |-> NoUp]
      ELSE LET c == Connect(pool, name, TargetOf(store, name), connOk, kinds)
           IN  IF c.ok
                 THEN [ok |-> TRUE, err |-> "none", pool |-> c.pool,
                       up |-> PoolGet(c.pool, name)]
                 ELSE [ok |-> FALSE, err |-> "connect_failed",
                       pool |-> [pool EXCEPT ![name] = [kind |-> "failed", ver |-> 0]],
                       up |-> NoUp]

\* ConnectionPool::get_or_create: the cached upstream if there is one; otherwise
\* read the target from the store and connect; errors leave the map alone.
GetOrCreate(pool, store, name, connOk, kinds) ==
  IF PoolGet(pool, name) # NoUp
    THEN [ok |-> TRUE, err |-> "none", pool |-> pool, up |-> PoolGet(pool, name)]
    ELSE IF TargetOf(store, name) = NoTarget
      THEN [ok |-> FALSE, err |-> "target_not_found", pool |-> pool, up |-> NoUp]
      ELSE LET c == Connect(pool, name, TargetOf(store, name), connOk, kinds)
           IN  IF c.ok
                 THEN [ok |-> TRUE, err |-> "none", pool |-> c.pool,
                       up |-> PoolGet(c.pool, name)]
                 ELSE [ok |-> FALSE, err |-> "connect_failed", pool |-> pool, up |-> NoUp]

\* ConnectionPool::remove: take the entry out of the map and hand it back.
PoolRemove(pool, name) ==
  [pool |-> IF name \in DOMAIN pool THEN [pool EXCEPT ![name] = NoUp] ELSE pool,
   up |-> PoolGet(pool, name)]

\* ConnectionPool::list, one target after the other in name order: get_or_create
\* for each configured name; a target whose creation fails is skipped.
RECURSIVE PoolListFrom(_, _, _, _)
PoolListFrom(i, pool, store, createFail) ==
  IF i > Len(NameOrder)
    THEN [pool |-> pool, conns |-> <<>>]
    ELSE IF TargetOf(store, NameOrder[i]) = NoTarget
      THEN PoolListFrom(i + 1, pool, store, createFail)
      ELSE LET g == GetOrCreate(pool, store, NameOrder[i], NameOrder[i] \notin createFail,
                                McpKinds)
               rest == PoolListFrom(i + 1, g.pool, store, createFail)
           IN  IF g.ok
                 THEN [pool |-> rest.pool, conns |-> <<NameOrder[i]>> \o rest.conns]
                 ELSE rest

PoolList(pool, store, createFail) == PoolListFrom(1, pool, store, createFail)

\* ------------------------------------------------------------------ Relay (MCP handler)
\* The record of one handled request.
Response(op, caller, name, result, target, up, calls, items) ==
  [op |-> op, caller |-> caller, name |-> name, result |-> result,
   target |-> target, up |-> up, calls |-> calls, items |-> items]

\* The outcome of the upstream operation: unsupported capabilities and failed
\* calls are errors.
UpResult(up, op, upOk) ==
  IF Supports(up.kind, op) /\ upOk THEN "ok" ELSE "upstream_error"

\* One operation issued on an UpstreamTarget, and whether it returned Ok.
UpCall(target, up, op, inner, upOk) ==
  [target |-> target, ver |-> up.ver, op |-> op, inner |-> inner,
   ok |-> UpResult(up, op, upOk) = "ok"]

\* A plausible bug: the RBAC check is made on the inner name, not the composed one.
DeniedOnInnerName(pols, rtype, id, who) ==
  ~Validate(pols, rtype, IF SplitOnce(id).some THEN SplitOnce(id).tail ELSE id, who)

\* if !self.state.read().await.policies.validate(&ResourceType::X { id }, &identity)
Denied(pols, rtype, id, who) == ~Validate(pols, rtype, id, who)

\* A plausible bug: the name is split before the RBAC check.
CallToolSplitsFirst(pols, caller, name) ==
  IF ~SplitOnce(name).some THEN "invalid_tool_name"
  ELSE IF Denied(pols, "Tool", name, caller) THEN "not_allowed"
  ELSE "route"

\* A plausible bug: call_tool unwraps the split like get_prompt does.
CallToolUnwraps(pols, caller, name) ==
  IF Denied(pols, "Tool", name, caller) THEN "not_allowed"
  ELSE IF ~SplitOnce(name).some THEN "panic"
  ELSE "route"

\* call_tool up to the pool lookup: the RBAC check, then
\* split_once(':').ok_or(invalid_request("invalid tool name"))?
CallToolPreCheck(pols, caller, name) ==
  IF Denied(pols, "Tool", name, caller) THEN "not_allowed"
  ELSE IF ~SplitOnce(name).some THEN "invalid_tool_name"
  ELSE "route"

\* get_prompt up to the pool lookup: the RBAC check, then split_once(':').unwrap()
GetPromptPreCheck(pols, caller, name) ==
  IF Denied(pols, "Prompt", name, caller) THEN "not_allowed"
  ELSE IF ~SplitOnce(name).some THEN "panic"
  ELSE "route"

\* read_resource up to the pool lookup: the RBAC check, then split_once(':').unwrap()
ReadResourcePreCheck(pols, caller, name) ==
  IF Denied(pols, "Resource", name, caller) THEN "not_allowed"
  ELSE IF ~SplitOnce(name).some THEN "panic"
  ELSE "route"

\* Relay::call_tool
CallTool(caller, name, connOk, upOk) ==
  /\ IF CallToolPreCheck(policies, caller, name) # "route"
       THEN /\ last' = Response("call_tool", caller, name,
                                CallToolPreCheck(policies, caller, name),
                                <<>>, NoUp, <<>>, <<>>)
            /\ by_name' = by_name
       ELSE LET service_name == SplitOnce(name).head
                tool == SplitOnce(name).tail
                svc == GetOrCreate(by_name, targets, service_name, connOk, McpKinds)
            IN  /\ by_name' = svc.pool
                /\ IF ~svc.ok
                     THEN last' = Response("call_tool", caller, name, "service_not_found",
                                           service_name, NoUp, <<>>, <<>>)
                     ELSE last' = Response("call_tool", caller, name,
                                           UpResult(svc.up, "call_tool", upOk),
                                           service_name, svc.up,
                                           <<UpCall(service_name, svc.up, "call_tool", tool,
                                                    upOk)>>,
                                           <<>>)
  /\ UNCHANGED <<targets, policies, nextVer, a2a, ext>>

\* Relay::get_prompt
GetPrompt(caller, name, connOk, upOk) ==
  /\ IF GetPromptPreCheck(policies, caller, name) # "route"
       THEN /\ last' = Response("get_prompt", caller, name,
                                GetPromptPreCheck(policies, caller, name),
                                <<>>, NoUp, <<>>, <<>>)
            /\ by_name' = by_name
       ELSE LET service_name == SplitOnce(name).head
                prompt == SplitOnce(name).tail
                svc == GetOrCreate(by_name, targets, service_name, connOk, McpKinds)
            IN  /\ by_name' = svc.pool
                /\ IF ~svc.ok
                     THEN last' = Response("get_prompt", caller, name, "service_not_found",
                                           service_name, NoUp, <<>>, <<>>)
                     ELSE last' = Response("get_prompt", caller, name,
                                           UpResult(svc.up, "get_prompt", upOk),
                                           service_name, svc.up,
                                           <<UpCall(service_name, svc.up, "get_prompt", prompt,
                                                    upOk)>>,
                                           <<>>)
  /\ UNCHANGED <<targets, policies, nextVer, a2a, ext>>

\* Relay::read_resource
ReadResource(caller, name, connOk, upOk) ==
  /\ IF ReadResourcePreCheck(policies, caller, name) # "route"
       THEN /\ last' = Response("read_resource", caller, name,
                                ReadResourcePreCheck(policies, caller, name),
                                <<>>, NoUp, <<>>, <<>>)
            /\ by_name' = by_name
       ELSE LET service_name == SplitOnce(name).head
                resource == SplitOnce(name).tail
                svc == GetOrCreate(by_name, targets, service_name, connOk, McpKinds)
            IN  /\ by_name' = svc.pool
                /\ IF ~svc.ok
                     THEN last' = Response("read_resource", caller, name, "service_not_found",
                                           service_name, NoUp, <<>>, <<>>)
                     ELSE last' = Response("read_resource", caller, name,
                                           UpResult(svc.up, "read_resource", upOk),
                                           service_name, svc.up,
                                           <<UpCall(service_name, svc.up, "read_resource",
                                                    resource, upOk)>>,
                                           <<>>)
  /\ UNCHANGED <<targets, policies, nextVer, a2a, ext>>

\* ------------------------------------------------------------------ Relay fan-out
\* The items a sub-call returns, as the handler maps them.
PrefixAll(n, inner) == [i \in 1..Len(inner) |-> Compose(n, inner[i])]

\* list_tools: Tool { name: format!("{}:{}", _name, t.name), .. }
SubTools == [n \in Names |-> PrefixAll(n, InnerTools(n))]

\* list_prompts: Prompt { name: format!("{}:{}", _name, p.name), .. }
SubPrompts == [n \in Names |-> PrefixAll(n, InnerPrompts(n))]

\* list_resources: Ok(r.resources)
SubResources == [n \in Names |-> InnerResources(n)]

\* list_resource_templates: Ok(r.resource_templates)
SubTemplates == [n \in Names |-> InnerTemplates(n)]

\* The connections whose sub-call returns Ok.
Succeeded(conns, pool, op, callFail) ==
  SelectSeq(conns, LAMBDA n : Supports(PoolGet(pool, n).kind, op) /\ n \notin callFail)

\* results.into_iter().flatten().collect()
RECURSIVE Flatten(_, _)
Flatten(good, sub) ==
  IF good = <<>> THEN <<>> ELSE sub[Head(good)] \o Flatten(Tail(good), sub)

\* A plausible bug: one failed sub-call fails the whole fan-out.
JoinAllFailFast(conns, pool, op, callFail, sub) ==
  IF Succeeded(conns, pool, op, callFail) = conns
    THEN [result |-> "ok", items |-> Flatten(conns, sub)]
    ELSE [result |-> "internal_error", items |-> <<>>]

\* join_all(all).await.into_iter().partition_result(), then Ok(flattened results)
JoinAll(conns, pool, op, callFail, sub) ==
  [result |-> "ok", items |-> Flatten(Succeeded(conns, pool, op, callFail), sub)]

\* The operations a fan-out issues: one per connection.
FanOutCalls(conns, pool, op, callFail) ==
  [i \in 1..Len(conns) |->
     UpCall(conns[i], PoolGet(pool, conns[i]), op, <<>>, conns[i] \notin callFail)]

\* Relay::list_tools
ListTools(createFail, callFail) ==
  /\ LET l == PoolList(by_name, targets, createFail)
         r == JoinAll(l.conns, l.pool, "list_tools", callFail, SubTools)
     IN  /\ by_name' = l.pool
         /\ last' = Response("list_tools", "anon", <<>>, r.result, <<>>, NoUp,
                             FanOutCalls(l.conns, l.pool, "list_tools", callFail), r.items)
  /\ UNCHANGED <<targets, policies, nextVer, a2a, ext>>

\* Relay::list_prompts
ListPrompts(createFail, callFail) ==
  /\ LET l == PoolList(by_name, targets, createFail)
         r == JoinAll(l.conns, l.pool, "list_prompts", callFail, SubPrompts)
     IN  /\ by_name' = l.pool
         /\ last' = Response("list_prompts", "anon", <<>>, r.result, <<>>, NoUp,
                             FanOutCalls(l.conns, l.pool, "list_prompts", callFail), r.items)
  /\ UNCHANGED <<targets, policies, nextVer, a2a, ext>>

\* Relay::list_resources
ListResources(createFail, callFail) ==
  /\ LET l == PoolList(by_name, targets, createFail)
         r == JoinAll(l.conns, l.pool, "list_resources", callFail, SubResources)
     IN  /\ by_name' = l.pool
         /\ last' = Response("list_resources", "anon", <<>>, r.result, <<>>, NoUp,
                             FanOutCalls(l.conns, l.pool, "list_resources", callFail), r.items)
  /\ UNCHANGED <<targets, policies, nextVer, a2a, ext>>

\* Relay::list_resource_templates
ListResourceTemplates(createFail, callFail) ==
  /\ LET l == PoolList(by_name, targets, createFail)
         r == JoinAll(l.conns, l.pool, "list_resource_templates", callFail, SubTemplates)
     IN  /\ by_name' = l.pool
         /\ last' = Response("list_resource_templates", "anon", <<>>, r.result, <<>>, NoUp,
                             FanOutCalls(l.conns, l.pool, "list_resource_templates", callFail), r.items)
  /\ UNCHANGED <<targets, policies, nextVer, a2a, ext>>

\* Relay::remove_target: take the entry out of the pool; cancel an Mcp upstream
\* (cancelOk: the join of its task succeeds); any other variant hits todo!().
RemoveTarget(name, cancelOk) ==
  /\ LET r == PoolRemove(by_name, name)
     IN  /\ by_name' = r.pool
         /\ last' = Response("remove_target", "anon", name,
                             IF r.up = NoUp THEN "ok"
                             ELSE IF Variant(r.up.kind) = "Mcp"
                               THEN (IF cancelOk THEN "ok" ELSE "join_error")
                               ELSE "panic",
                             name, r.up, <<>>, <<>>)
  /\ UNCHANGED <<targets, policies, nextVer, a2a, ext>>

\* ------------------------------------------------------------------ A2A handlers
\* The live upstreams an in-flight A2A request holds in its own pool.
A2aBegin(s, n, connOk) ==
  /\ a2a[s] = Idle
  /\ LET svc == GetOrCreate(EmptyPool, targets, n, connOk, A2aKinds)
     IN  a2a' = IF svc.ok
                  THEN [a2a EXCEPT ![s] = [target |-> n, up |-> svc.up]]
                  ELSE a2a
  /\ UNCHANGED <<targets, policies, nextVer, by_name, last, ext>>

\* agent_card_handler: Relay::new, then fetch_agent_card on the new relay.
AgentCardHandler(s, n, connOk) == A2aBegin(s, n, connOk)

\* agent_call_handler: Relay::new, then proxy the request on the new relay.
AgentCallHandler(s, n, connOk) == A2aBegin(s, n, connOk)

\* The handler returns: its Relay, pool and upstream are dropped.
A2aDone(s) ==
  /\ a2a[s] # Idle
  /\ a2a' = [a2a EXCEPT ![s] = Idle]
  /\ UNCHANGED <<targets, policies, nextVer, by_name, last, ext>>

\* ------------------------------------------------------------------ ListenerManager
\* A listener task is live until it returns, panics or is aborted.
Live(t) == t.st \in {"starting", "orphan", "ready"}

\* The task has completed: JoinSet::join_next can return it.
Finished(t) == ~Live(t)

TaskIds == 1..Len(tasks)

\* An abort that cancels nothing: the task keeps running.
AbortNothing(ts, id) == ts

\* AbortHandle::abort: a live task is cancelled, a completed one is left as
\* it is; 0 stands for no handle.
Abort(ts, id) ==
  IF id # 0 /\ Live(ts[id]) THEN [ts EXCEPT ![id].st = "aborted"] ELSE ts

\* A shutdown that aborts and awaits only the tasks the running map names.
ShutdownRecorded(ts) ==
  [i \in DOMAIN ts |->
     IF \E n \in DOMAIN running : running[n] = i
       THEN [ts[i] EXCEPT !.st = IF @ \in {"starting", "orphan", "ready"}
                                   THEN "aborted" ELSE @,
                          !.joined = TRUE]
       ELSE ts[i]]

\* JoinSet::shutdown: abort every task still on the set and await them all.
Shutdown(ts) ==
  [i \in DOMAIN ts |->
     IF ts[i].joined THEN ts[i]
     ELSE [ts[i] EXCEPT !.st = IF Live(ts[i]) THEN "aborted" ELSE @,
                        !.joined = TRUE]]

\* The tasks start_listener may still spawn for what is already under way.
PendingSpawns ==
  Cardinality({i \in 1..Len(events) : events[i].type \in {"Insert", "Update"}})
    + Cardinality(mgr.todo) + (IF mgr.pc = "start" THEN 1 ELSE 0)

\* The store upserts a listener and emits Insert (new name) or Update.
UpsertListener(n) ==
  /\ mgr.ret = "run" /\ ~closed
  /\ Len(events) < MaxQueue
  /\ Len(tasks) + PendingSpawns < MaxTasks
  /\ listeners' = listeners \cup {n}
  /\ events' = Append(events,
       [type |-> IF n \in listeners THEN "Update" ELSE "Insert", name |-> n])
  /\ UNCHANGED <<closed, cancelled, tasks, running, mgr, notLm>>

\* The store removes a listener and emits Remove.
StoreRemoveListener(n) ==
  /\ mgr.ret = "run" /\ ~closed
  /\ Len(events) < MaxQueue
  /\ n \in listeners
  /\ listeners' = listeners \ {n}
  /\ events' = Append(events, [type |-> "Remove", name |-> n])
  /\ UNCHANGED <<closed, cancelled, tasks, running, mgr, notLm>>

\* The configuration plane goes away: the update channel has no sender left.
CloseChannel ==
  /\ mgr.ret = "run" /\ ~closed
  /\ closed' = TRUE
  /\ UNCHANGED <<listeners, events, cancelled, tasks, running, mgr, notLm>>

\* The process-wide token is cancelled.
CancelRoot ==
  /\ ~cancelled
  /\ cancelled' = TRUE
  /\ UNCHANGED <<listeners, events, closed, tasks, running, mgr, notLm>>

\* start_listener returns to its caller (ListenerManager::new or run).
Back(m) ==
  [m EXCEPT !.pc = m.ret, !.name = "", !.id = 0, !.via = "none", !.old = 0]

\* ListenerManager::new: the next listener of the initial state is started.
NewNext(n) ==
  /\ mgr.pc = "new" /\ n \in mgr.todo
  /\ mgr' = [mgr EXCEPT !.pc = "start", !.todo = @ \ {n}, !.name = n, !.via = "New"]
  /\ UNCHANGED <<listeners, events, closed, cancelled, tasks, running, notLm>>

\* ListenerManager::new returns and run is entered.
NewReturn ==
  /\ mgr.pc = "new" /\ mgr.todo = {}
  /\ mgr' = [mgr EXCEPT !.pc = "run", !.ret = "run"]
  /\ UNCHANGED <<listeners, events, closed, cancelled, tasks, running, notLm>>

\* run, join_next arm: a completed task is taken off run_set and logged.
JoinNextLoop(t) ==
  /\ mgr.pc = "run"
  /\ ~tasks[t].joined /\ Finished(tasks[t])
  /\ tasks' = [tasks EXCEPT ![t].joined = TRUE]
  /\ UNCHANGED <<listeners, events, closed, cancelled, running, mgr, notLm>>

\* run, Insert arm: start the listener.
RecvInsert ==
  /\ mgr.pc = "run" /\ events # <<>> /\ Head(events).type = "Insert"
  /\ events' = Tail(events)
  /\ mgr' = [mgr EXCEPT !.pc = "start", !.name = Head(events).name, !.via = "Insert"]
  /\ UNCHANGED <<listeners, closed, cancelled, tasks, running, notLm>>

\* run, Update arm: take the recorded handle out and abort it, then start
\* the listener.
RecvUpdate ==
  /\ mgr.pc = "run" /\ events # <<>> /\ Head(events).type = "Update"
  /\ LET n == Head(events).name
     IN  /\ tasks' = Abort(tasks, running[n])
         /\ running' = [running EXCEPT ![n] = 0]
         /\ mgr' = [mgr EXCEPT !.pc = "start", !.name = n, !.via = "Update",
                               !.old = running[n]]
  /\ events' = Tail(events)
  /\ UNCHANGED <<listeners, closed, cancelled, notLm>>

\* run, Remove arm: take the recorded handle out and abort it.
RecvRemove ==
  /\ mgr.pc = "run" /\ events # <<>> /\ Head(events).type = "Remove"
  /\ LET n == Head(events).name
     IN  /\ tasks' = Abort(tasks, running[n])
         /\ running' = [running EXCEPT ![n] = 0]
  /\ events' = Tail(events)
  /\ UNCHANGED <<listeners, closed, cancelled, mgr, notLm>>

\* run, None arm: the channel is closed and drained; break and shut down.
LoopClosed ==
  /\ mgr.pc = "run" /\ closed /\ events = <<>>
  /\ tasks' = Shutdown(tasks)
  /\ mgr' = [mgr EXCEPT !.pc = "done", !.ret = "done"]
  /\ UNCHANGED <<listeners, events, closed, cancelled, running, notLm>>

\* run, ct.cancelled() arm: break and shut down.
LoopCancelled ==
  /\ mgr.pc = "run" /\ cancelled
  /\ tasks' = Shutdown(tasks)
  /\ mgr' = [mgr EXCEPT !.pc = "done", !.ret = "done"]
  /\ UNCHANGED <<listeners, events, closed, cancelled, running, notLm>>

\* start_listener up to the spawn: return if the state has no such
\* listener, else spawn its task on run_set.
StartListener ==
  /\ mgr.pc = "start"
  /\ IF mgr.name \notin listeners
       THEN /\ mgr' = Back(mgr)
            /\ UNCHANGED tasks
       ELSE /\ tasks' = Append(tasks,
                 [name |-> mgr.name, st |-> "starting", joined |-> FALSE])
            /\ mgr' = [mgr EXCEPT !.pc = "select", !.id = Len(tasks) + 1]
  /\ UNCHANGED <<listeners, events, closed, cancelled, running, notLm>>

\* A start_listener that records the handle as soon as the task is spawned.
SelectReadyEager ==
  /\ mgr.pc = "select"
  /\ running' = [running EXCEPT ![mgr.name] = mgr.id]
  /\ mgr' = [mgr EXCEPT !.pc = mgr.ret, !.name = "", !.id = 0, !.via = "none",
                        !.old = 0]
  /\ UNCHANGED <<listeners, events, closed, cancelled, tasks, notLm>>

\* start_listener select, ready_rx arm with Ok: the task has sent ready;
\* its handle is recorded under the name.
SelectReady ==
  /\ mgr.pc = "select" /\ tasks[mgr.id].st \in {"ready", "exited"}
  /\ running' = [running EXCEPT ![mgr.name] = mgr.id]
  /\ mgr' = Back(mgr)
  /\ UNCHANGED <<listeners, events, closed, cancelled, tasks, notLm>>

\* start_listener select, ready_rx arm with Err: the task ended without
\* sending ready; abort.
SelectReadyErr ==
  /\ mgr.pc = "select" /\ tasks[mgr.id].st = "failed"
  /\ tasks' = Abort(tasks, mgr.id)
  /\ mgr' = Back(mgr)
  /\ UNCHANGED <<listeners, events, closed, cancelled, running, notLm>>

\* start_listener select, join_next arm: some completed task of run_set is
\* returned. Nothing is aborted and nothing recorded; ready_rx is dropped, so
\* a task that has not sent ready yet will find the channel closed.
SelectJoinNext(t) ==
  /\ mgr.pc = "select"
  /\ ~tasks[t].joined /\ Finished(tasks[t])
  /\ tasks' = [i \in DOMAIN tasks |->
       IF i = t THEN [tasks[i] EXCEPT !.joined = TRUE]
       ELSE IF i = mgr.id /\ tasks[i].st = "starting"
              THEN [tasks[i] EXCEPT !.st = "orphan"]
              ELSE tasks[i]]
  /\ mgr' = Back(mgr)
  /\ UNCHANGED <<listeners, events, closed, cancelled, running, notLm>>

\* start_listener select, sleep arm: five seconds have passed; abort.
SelectTimeout ==
  /\ mgr.pc = "select"
  /\ tasks' = Abort(tasks, mgr.id)
  /\ mgr' = Back(mgr)
  /\ UNCHANGED <<listeners, events, closed, cancelled, running, notLm>>

\* start_listener select, ct.cancelled() arm: abort.
SelectCancelled ==
  /\ mgr.pc = "select" /\ cancelled
  /\ tasks' = Abort(tasks, mgr.id)
  /\ mgr' = Back(mgr)
  /\ UNCHANGED <<listeners, events, closed, cancelled, running, notLm>>

\* Listener::listen reaches ready.send(()).unwrap(): ready is sent, or the
\* unwrap panics because the receiver is gone.
TaskReady(t) ==
  /\ tasks[t].st \in {"starting", "orphan"}
  /\ tasks' = [tasks EXCEPT ![t].st = IF @ = "starting" THEN "ready" ELSE "failed"]
  /\ UNCHANGED <<listeners, events, closed, cancelled, running, mgr, notLm>>

\* Listener::listen returns an error before ready (bind or serve failed).
TaskFail(t) ==
  /\ tasks[t].st \in {"starting", "orphan"}
  /\ tasks' = [tasks EXCEPT ![t].st = "failed"]
  /\ UNCHANGED <<listeners, events, closed, cancelled, running, mgr, notLm>>

\* Listener::listen returns after ready: its servers have ended.
TaskExit(t) ==
  /\ tasks[t].st = "ready"
  /\ tasks' = [tasks EXCEPT ![t].st = "exited"]
  /\ UNCHANGED <<listeners, events, closed, cancelled, running, mgr, notLm>>

\* ------------------------------------------------------------------ A2A relay
\* Skill names an upstream agent card can carry.
SkillNames == { <<"t">>, <<"u">> }

\* The skills of an upstream card: every list of at most MaxSkills names.
SkillLists == UNION { [1..k -> SkillNames] : k \in 0..MaxSkills }

\* What state.listener can be when a card is fetched.
ListenerKinds == {"a2a", "sse"}

\* A filter that checks the skill's own name, not the composed tool id.
FilterSkillsByInnerName(pols, service, id, skills) ==
  SelectSeq(skills, LAMBDA sk : Validate(pols, "Tool", sk, id))

\* card.skills.iter().filter(validate Tool "{service}:{skill}").collect()
FilterSkills(pols, service, id, skills) ==
  SelectSeq(skills, LAMBDA sk : Validate(pols, "Tool", Compose(service, sk), id))

\* Relay::fetch_agent_card on the Relay the handler has just built.
FetchAgentCard(caller, n, upstream, env, lk) ==
  /\ LET svc == GetOrCreate(EmptyPool, targets, n, env.connOk, A2aKinds)
         out == IF ~svc.ok THEN "service_not_found"
                ELSE IF ~env.upOk THEN "upstream_error"
                ELSE IF lk # "a2a" THEN "panic"
                ELSE "ok"
     IN  card' = [caller |-> caller, target |-> n, upstream |-> upstream,
                  result |-> out,
                  skills |-> IF out = "ok"
                               THEN FilterSkills(policies, n, caller, upstream)
                               ELSE <<>>]
  /\ UNCHANGED <<targets, policies, br, notBr>>

\* Content-Type values an upstream may answer with, as the tokens of the
\* header value; NoHeader is a response without the header.
NoHeader == [present |-> FALSE, value |-> <<>>]

HeaderOf(toks) == [present |-> TRUE, value |-> toks]

HeaderValues ==
  { NoHeader,
    HeaderOf(<<"application", "/", "json">>),
    HeaderOf(<<"application", "/", "json", ";", "charset=utf-8">>),
    HeaderOf(<<"Application", "/", "JSON">>),
    HeaderOf(<<"text", "/", "event-stream">>),
    HeaderOf(<<"text", "/", "plain">>),
    HeaderOf(<<"garbage">>),
    HeaderOf(<<"0xFF">>) }

\* HeaderValue::to_str: fails on a byte that is not visible ASCII.
ToStrOk(toks) == \A i \in 1..Len(toks) : toks[i] # "0xFF"

\* Mime names compare and print in lower case.
Lower(tok) ==
  CASE tok = "Application" -> "application"
    [] tok = "JSON" -> "json"
    [] OTHER -> tok

\* str::parse::<mime::Mime>: type "/" subtype, then optional parameters.
MimeParse(toks) ==
  IF /\ Len(toks) >= 3
     /\ toks[2] = "/"
     /\ toks[1] \notin {"/", ";"} /\ toks[3] \notin {"/", ";"}
     /\ (Len(toks) > 3 => toks[4] = ";")
    THEN [ok |-> TRUE, type |-> Lower(toks[1]), subtype |-> Lower(toks[3])]
    ELSE [ok |-> FALSE, type |-> "", subtype |-> ""]

None == <<>>

\* A classification that takes a response without Content-Type for JSON.
ContentDefaultsToJson(hdr) ==
  IF ~hdr.present THEN <<"application", "/", "json">>
  ELSE IF ~ToStrOk(hdr.value) \/ ~MimeParse(hdr.value).ok THEN None
  ELSE <<MimeParse(hdr.value).type, "/", MimeParse(hdr.value).subtype>>

\* headers().get(CONTENT_TYPE).and_then(to_str).and_then(parse).map(type/subtype)
Content(hdr) ==
  IF ~hdr.present THEN None
  ELSE IF ~ToStrOk(hdr.value) THEN None
  ELSE IF ~MimeParse(hdr.value).ok THEN None
  ELSE <<MimeParse(hdr.value).type, "/", MimeParse(hdr.value).subtype>>

\* The data of an SSE event: two JSON-RPC messages, the first also with
\* insignificant white space, and a text that is no JSON-RPC message.
DataTexts == {"m1", " m1", "m2", "bad"}

\* serde_json::from_str::<JsonRpcMessage>(&event.data)
Decode(data) ==
  CASE data \in {"m1", " m1"} -> [ok |-> TRUE, msg |-> "M1"]
    [] data = "m2" -> [ok |-> TRUE, msg |-> "M2"]
    [] OTHER -> [ok |-> FALSE, msg |-> "none"]

\* Event::default().json_data(&message): the message printed compactly.
Encode(msg) == IF msg = "M1" THEN "m1" ELSE "m2"

\* The events an upstream SSE stream can carry.
SseEvents ==
  { [event |-> "message", data |-> d] : d \in DataTexts }
    \cup { [event |-> "ping", data |-> "m1"] }

\* The outcome of proxy_request, with what it was computed from.
BrResult(result, why, hdr, bodyOk) ==
  [BrIdle EXCEPT !.result = result, !.why = why, !.hdr = hdr, !.bodyOk = bodyOk]

\* Relay::proxy_request on the Relay the handler has just built: look the
\* target up, POST the request, classify the response by its Content-Type.
ProxyRequest(n, hdr, bodyOk, env) ==
  /\ br.result = "none"
  /\ LET svc == GetOrCreate(EmptyPool, targets, n, env.connOk, A2aKinds)
     IN  br' =
           IF ~svc.ok THEN BrResult("error", "service_not_found", hdr, bodyOk)
           ELSE IF ~env.upOk THEN BrResult("error", "send", hdr, bodyOk)
           ELSE IF Content(hdr) = <<"application", "/", "json">>
             THEN BrResult(IF bodyOk THEN "Single" ELSE "panic", "content", hdr, bodyOk)
           ELSE IF Content(hdr) = <<"text", "/", "event-stream">>
             THEN [BrResult("Streaming", "content", hdr, bodyOk) EXCEPT
                     !.reader = "reading", !.upEnd = "open", !.pos = 1, !.rx = TRUE]
           ELSE BrResult("error", "content", hdr, bodyOk)
  /\ UNCHANGED <<targets, policies, card, notBr>>

\* The upstream writes one more event on the response body.
UpstreamSend(e) ==
  /\ br.upEnd = "open" /\ Len(br.evs) < MaxEvents
  /\ br' = [br EXCEPT !.evs = Append(@, e)]
  /\ UNCHANGED <<targets, policies, card, notBr>>

\* The response body ends, cleanly or with a transport error.
UpstreamClose(how) ==
  /\ br.upEnd = "open"
  /\ br' = [br EXCEPT !.upEnd = how]
  /\ UNCHANGED <<targets, policies, card, notBr>>

\* The reader's turn over an unbounded channel: the send never suspends.
ReaderNextUnbounded ==
  /\ br.reader = "reading"
  /\ IF br.pos > Len(br.evs)
       THEN /\ br.upEnd \in {"end", "error"}
            /\ br' = [br EXCEPT !.reader = IF br.upEnd = "error" THEN "panicked"
                                           ELSE "done"]
       ELSE LET e == br.evs[br.pos]
            IN  IF e.event = "message"
                  THEN IF ~Decode(e.data).ok \/ ~br.rx
                         THEN br' = [br EXCEPT !.reader = "panicked"]
                         ELSE br' = [br EXCEPT !.chan = Append(@, Decode(e.data).msg),
                                               !.pos = @ + 1]
                  ELSE br' = [br EXCEPT !.pos = @ + 1]
  /\ UNCHANGED <<targets, policies, card, notBr>>

\* One turn of the reader task's loop: the stream has ended (cleanly, or with
\* an error item, on which expect panics), or its next event is taken: a
\* "message" event is decoded and sent on the channel, any other is skipped.
\* A full channel suspends the send.
ReaderNext ==
  /\ br.reader = "reading"
  /\ IF br.pos > Len(br.evs)
       THEN /\ br.upEnd \in {"end", "error"}
            /\ br' = [br EXCEPT !.reader = IF br.upEnd = "error" THEN "panicked"
                                           ELSE "done"]
       ELSE LET e == br.evs[br.pos]
            IN  IF e.event = "message"
                  THEN IF ~Decode(e.data).ok \/ ~br.rx
                         THEN br' = [br EXCEPT !.reader = "panicked"]
                         ELSE /\ Len(br.chan) < ChanCap
                              /\ br' = [br EXCEPT !.chan = Append(@, Decode(e.data).msg),
                                                  !.pos = @ + 1]
                  ELSE br' = [br EXCEPT !.pos = @ + 1]
  /\ UNCHANGED <<targets, policies, card, notBr>>

\* agent_call_handler's stream yields the next message as an SSE event.
ClientTake ==
  /\ br.rx /\ br.chan # <<>>
  /\ br' = [br EXCEPT !.chan = Tail(@), !.delivered = Append(@, Encode(Head(br.chan)))]
  /\ UNCHANGED <<targets, policies, card, notBr>>

\* The client goes away: the receiver and what it buffers are dropped.
ClientLeave ==
  /\ br.rx
  /\ br' = [br EXCEPT !.rx = FALSE, !.chan = <<>>]
  /\ UNCHANGED <<targets, policies, card, notBr>>

\* The request is over: the response is sent, or the stream has ended.
ProxyDone ==
  /\ br.result # "none"
  /\ br.reader \in {"none", "done", "panicked"}
  /\ br.upEnd # "open"
  /\ br.chan = <<>>
  /\ br' = BrIdle
  /\ UNCHANGED <<targets, policies, card, notBr>>

\* ------------------------------------------------------------------ OpenAPI synthesizer
\* ParameterType: where a parameter goes.  Cookie parameters, which the 3.0
\* synthesizer rejects, are not drawn.
ParameterTypes == {"header", "query", "path"}

BODY_NAME == "body"

\* The order in which a HashMap<ParameterType, _> hands out its entries.
ParameterOrders ==
  {o \in [1..Cardinality(ParameterTypes) -> ParameterTypes] :
     \A t \in ParameterTypes : \E i \in DOMAIN o : o[i] = t}

ParamNames == {"id", "limit"}

Parameters == [name : ParamNames, location : ParameterTypes, required : BOOLEAN]

\* A JSON schema, as far as synthesis looks into it: its type, the names of
\* its properties and its required list.
StringSchema == [type |-> "string", properties |-> {}, required |-> <<>>]

BodySchemas ==
  { [type |-> "object", properties |-> {"name"}, required |-> <<"name">>],
    [type |-> "object", properties |-> {"name"}, required |-> <<>>],
    StringSchema }

MediaTypes == {"application/json", "application/xml"}

NoBody ==
  [present |-> FALSE, required |-> FALSE, media |-> "application/json",
   schema |-> StringSchema]

RequestBodies ==
  [present : {TRUE}, required : BOOLEAN, media : MediaTypes, schema : BodySchemas]

\* operation_id: Option<String>.
OperationIds == {None, <<"op">>}

Methods == {"get", "head"}

\* The operations with k parameters and a request body out of bodies.
OperationsWith(k, bodies) ==
  [operation_id : OperationIds, method : Methods,
   parameters : [1..k -> Parameters], request_body : bodies]

\* The operations made of s items: the operation, its parameters, its body.
OperationsOfSize(s) ==
  OperationsWith(s - 1, {NoBody})
    \cup (IF s >= 2 THEN OperationsWith(s - 2, RequestBodies) ELSE {})

\* The paths of a document of at most b items, one operation per path, in
\* declaration order; path i is the i-th of the document.
RECURSIVE PathsWithin(_)
PathsWithin(b) ==
  {<<>>} \cup
  UNION { {<<op>> \o rest : op \in OperationsOfSize(s), rest \in PathsWithin(b - s)} :
          s \in 1..b }

Versions == {"3.0", "3.1"}

Documents == [version : Versions, paths : PathsWithin(MaxDocSize)]

Ok(tools) == [status |-> "ok", err |-> "none", tools |-> tools]

Err(e) == [status |-> "err", err |-> e, tools |-> <<>>]

\* The parameters of one ParameterType, in declaration order.
ParamSchemas(op, t) ==
  LET Here(p) == p.location = t
  IN SelectSeq(op.parameters, Here)

\* The sub-object of one ParameterType: every parameter is a property, the
\* required ones are listed.
SubSchema(props) ==
  LET Req(p) == p.required
      req == SelectSeq(props, Req)
  IN [type |-> "object",
      properties |-> {props[i].name : i \in DOMAIN props},
      required |-> [i \in 1..Len(req) |-> req[i].name]]

\* The 3.0 input schema of one operation: the application/json body under
\* "body", the parameters grouped by type; body_required is what a required
\* body adds to the required list.
FinalSchema(op, order, body_required) ==
  LET json == op.request_body.present /\ op.request_body.media = "application/json"
      types == {t \in ParameterTypes :
                  \E i \in DOMAIN op.parameters : op.parameters[i].location = t}
      Listed(t) == t \in types /\ SubSchema(ParamSchemas(op, t)).required # <<>>
  IN [type |-> "object",
      properties |->
        [k \in (IF json THEN {BODY_NAME} ELSE {}) \cup types |->
           IF k = BODY_NAME THEN op.request_body.schema
                            ELSE SubSchema(ParamSchemas(op, k))],
      required |->
        (IF json /\ op.request_body.required THEN body_required ELSE <<>>)
          \o SelectSeq(order, Listed)]

\* The tools of a 3.0 document whose operations all have an operation_id.
Tools30(open_api, order, body_required) ==
  [i \in 1..Len(open_api.paths) |->
     [tool |-> [name |-> Head(open_api.paths[i].operation_id),
                input_schema |-> FinalSchema(open_api.paths[i], order, body_required)],
      upstream |-> [method |-> open_api.paths[i].method, path |-> i]]]

ParseOpenapiV30Schema(open_api, order) ==
  IF \E i \in DOMAIN open_api.paths : open_api.paths[i].operation_id = None
  THEN Err("InformationRequired")
  ELSE Ok(Tools30(open_api, order, <<BODY_NAME, BODY_NAME>>))

ParseOpenapiV31Schema(open_api) == Err("InformationRequired")

OpenAPI30ParseSchema(spec, order) ==
  IF \E i \in DOMAIN spec.paths : spec.paths[i].operation_id = None
  THEN Err("InformationRequired")
  ELSE Ok(Tools30(spec, order, <<BODY_NAME>>))

\* (name, schema, required) of a 3.1 parameter; its location only goes into
\* the description.
ProcessParameterV31(p) == [name |-> p.name, schema |-> StringSchema, required |-> p.required]

\* (properties, required) of a 3.1 schema: those of an object schema, or the
\* single property "body".
ProcessSchemaV31(schema) ==
  IF schema.type = "object"
  THEN [properties |-> schema.properties, required |-> schema.required]
  ELSE [properties |-> {"body"}, required |-> <<>>]

\* The schema of the application/json content, or else of the first content
\* type there is.
ProcessRequestBodyV31(request_body) == ProcessSchemaV31(request_body.schema)

\* s followed by the entries of t that s \o (the earlier ones) does not hold.
RECURSIVE PushMissing(_, _)
PushMissing(s, t) ==
  IF t = <<>> THEN s
  ELSE PushMissing(IF \E i \in DOMAIN s : s[i] = Head(t) THEN s ELSE Append(s, Head(t)),
                   Tail(t))

CreateToolFromOperation(operation_id, method, path, operation) ==
  LET ps == [i \in 1..Len(operation.parameters) |->
               ProcessParameterV31(operation.parameters[i])]
      Req(p) == p.required
      preq == SelectSeq(ps, Req)
      body == IF operation.request_body.present
              THEN ProcessRequestBodyV31(operation.request_body)
              ELSE [properties |-> {}, required |-> <<>>]
  IN [tool |-> [name |-> operation_id,
                input_schema |->
                  [type |-> "object",
                   properties |->
                     [k \in {ps[i].name : i \in DOMAIN ps} \cup body.properties |->
                        StringSchema],
                   required |->
                     PushMissing([i \in 1..Len(preq) |-> preq[i].name], body.required)]],
      upstream |-> [method |-> method, path |-> path]]

\* The methods the 3.1 synthesizer looks at.
Methods31 == {"get", "post", "put", "delete", "patch"}

OpenAPI31ParseSchema(spec) ==
  LET Kept(i) == spec.paths[i].method \in Methods31 /\ spec.paths[i].operation_id # None
      kept == SelectSeq([i \in 1..Len(spec.paths) |-> i], Kept)
  IN Ok([j \in 1..Len(kept) |->
           CreateToolFromOperation(Head(spec.paths[kept[j]].operation_id),
                                   spec.paths[kept[j]].method, kept[j],
                                   spec.paths[kept[j]])])

\* The synthesizer of the outbound module, for 3.0 documents only.
OutboundParse(open_api, order) ==
  IF \E i \in DOMAIN open_api.paths : open_api.paths[i].operation_id = None
  THEN Err("InformationRequired")
  ELSE Ok(Tools30(open_api, order, <<BODY_NAME, BODY_NAME>>))

\* parse_openapi_schema of the openapi module.
ParseOpenapiSchema(order) ==
  /\ oa.result = NotParsed
  /\ oa' = [oa EXCEPT !.result =
              IF oa.doc.version = "3.0" THEN ParseOpenapiV30Schema(oa.doc, order)
                                        ELSE ParseOpenapiV31Schema(oa.doc)]
  /\ UNCHANGED notOa

\* OpenAPISpecificationFactory::create_specification(..).parse_schema().
CreateSpecification(order) ==
  /\ oa.result = NotParsed
  /\ oa' = [oa EXCEPT !.result =
              IF oa.doc.version = "3.0" THEN OpenAPI30ParseSchema(oa.doc, order)
                                        ELSE OpenAPI31ParseSchema(oa.doc)]
  /\ UNCHANGED notOa

\* parse_openapi_schema of the outbound module.
OutboundParseOpenapiSchema(order) ==
  /\ oa.result = NotParsed
  /\ oa.doc.version = "3.0"
  /\ oa' = [oa EXCEPT !.result = OutboundParse(oa.doc, order)]
  /\ UNCHANGED notOa

\* parse_openapi_schema once more, on the same document.
ParseOpenapiSchemaAgain(order) ==
  /\ oa.result # NotParsed
  /\ oa2 = NotParsed
  /\ oa2' = IF oa.doc.version = "3.0" THEN ParseOpenapiV30Schema(oa.doc, order)
                                      ELSE ParseOpenapiV31Schema(oa.doc)
  /\ UNCHANGED notDet

\* ------------------------------------------------------------------ 3.1 schema normalization
TypeNames == {"string", "integer", "number", "null"}

\* The value under "type": absent, a string, or an array of strings.
NoType == [array |-> FALSE, of |-> <<>>]

TypeString(t) == [array |-> FALSE, of |-> <<t>>]

TypeArray(ts) == [array |-> TRUE, of |-> ts]

TypeArrays == UNION {{TypeArray(ts) : ts \in [1..n -> TypeNames]} : n \in 0..MaxTypes}

\* A schema without sub-schemas.
Leaf(type, pattern) ==
  [type |-> type, nullable |-> FALSE, pattern |-> pattern, items |-> <<>>,
   properties |-> <<>>, composition |-> "none", branches |-> <<>>]

\* Every type array on a schema of its own.
FlatSchemas == {Leaf(type, "") : type \in TypeArrays}

\* The schemas that nested schemas are built from: their own keywords.
NestedLeaves ==
  { Leaf(TypeString("string"), ""),
    Leaf(TypeString("integer"), "^[0-9]+$"),
    Leaf(TypeArray(<<"string", "null">>), "^[A-Z]+$") }

Compositions == {"anyOf", "oneOf", "allOf"}

\* The schemas of n nodes, and the sequences of schemas of n nodes in all:
\* a node has its items (at most one schema), its properties (in key order)
\* and the branches of at most one composition keyword.
RECURSIVE SchemasOfSize(_), ForestsOfSize(_)
SchemasOfSize(n) ==
  UNION { UNION { { [leaf EXCEPT !.items = its, !.properties = props,
                                  !.composition = comp, !.branches = brs] :
                      leaf \in NestedLeaves,
                      its \in {f \in ForestsOfSize(a) : Len(f) <= 1},
                      props \in ForestsOfSize(b),
                      brs \in ForestsOfSize(n - 1 - a - b),
                      comp \in IF n - 1 - a - b = 0 THEN {"none"} ELSE Compositions } :
                  b \in 0..(n - 1 - a) } :
          a \in 0..(n - 1) }

ForestsOfSize(n) ==
  IF n = 0 THEN {<<>>}
  ELSE UNION { {<<s>> \o f : s \in SchemasOfSize(k), f \in ForestsOfSize(n - k)} :
               k \in 1..n }

NestedSchemas == UNION {SchemasOfSize(n) : n \in 1..MaxNodes}

RECURSIVE NormalizeSchemaV31(_)
NormalizeSchemaV31(schema) ==
  LET NotNull(t) == t # "null"
      others == SelectSeq(schema.type.of, NotNull)
      is_nullable == \E i \in DOMAIN schema.type.of : schema.type.of[i] = "null"
  IN [schema EXCEPT
        !.type = IF ~schema.type.array THEN @
                 ELSE IF others # <<>> THEN TypeString(others[Len(others)])
                 ELSE IF is_nullable THEN TypeString("null")
                 ELSE @,
        !.nullable = IF schema.type.array /\ others # <<>> /\ is_nullable THEN TRUE ELSE @,
        !.items = [i \in DOMAIN @ |-> NormalizeSchemaV31(@[i])]]

\* (Option<String>, bool)
NormalizeTypeArray(types) ==
  LET NotNull(t) == t # "null"
      non_null_types == SelectSeq(types, NotNull)
      has_null == \E i \in DOMAIN types : types[i] = "null"
  IN IF types = <<>> THEN [type |-> None, nullable |-> FALSE]
     ELSE IF non_null_types = <<>> THEN [type |-> None, nullable |-> TRUE]
     ELSE [type |-> <<non_null_types[1]>>, nullable |-> has_null]

\* normalize_schema_v3_1 on the schema of a parameter, a body or a property.
NormalizeSchema ==
  /\ nz.out = None
  /\ nz' = [nz EXCEPT !.out = <<NormalizeSchemaV31(nz.schema)>>]
  /\ UNCHANGED notNz

\* normalize_schema_v3_1 on what it returned.
NormalizeAgain ==
  /\ nz.out # None
  /\ nz.again = None
  /\ nz' = [nz EXCEPT !.again = <<NormalizeSchemaV31(nz.out[1])>>]
  /\ UNCHANGED notNz

\* normalize_type_array on the type array of the schema.
NormalizeTypes ==
  /\ nz.schema.type.array
  /\ nz.pair = None
  /\ nz' = [nz EXCEPT !.pair = <<NormalizeTypeArray(nz.schema.type.of)>>]
  /\ UNCHANGED notNz

\* ------------------------------------------------------------------ locks
\* The tasks that take the ConfigStore lock and the pool lock of the MCP
\* Relay: two requests on the Relay, the ListenerManager, an admin handler.
Handlers == {"h1", "h2"}

LockTasks == Handlers \cup {"mgr", "admin"}

\* tokio::sync::RwLock: the tasks awaiting the lock are served first in,
\* first out; a read is given out while no write is ahead of it, a write
\* once no guard is left.
Enqueue(lock, t, mode) == [lock EXCEPT !.queue = Append(@, [task |-> t, mode |-> mode])]

AtHead(lock, t) == lock.queue # <<>> /\ Head(lock.queue).task = t

Readers(lock) == {t \in LockTasks : lock.readers[t] > 0}

CanRead(lock, t) == AtHead(lock, t) /\ lock.writer = "none"

CanWrite(lock, t) == AtHead(lock, t) /\ lock.writer = "none" /\ Readers(lock) = {}

Dequeue(lock) == [lock EXCEPT !.queue = Tail(@)]

\* call_tool: self.state.read().await.policies.validate(..)
CallToolValidate(h) ==
  /\ locks.pc[h] = "idle"
  /\ locks' = [locks EXCEPT !.pc[h] = "validate", !.store = Enqueue(@, h, "read")]
  /\ UNCHANGED notLk

\* The guard is a temporary of the condition; then self.pool.write().await.
CallToolLockPool(h) ==
  /\ locks.pc[h] = "validate"
  /\ CanRead(locks.store, h)
  /\ \E allowed \in BOOLEAN :
       locks' = [locks EXCEPT !.store = Dequeue(@),
                        !.pc[h] = IF allowed THEN "pool_wait" ELSE "idle",
                        !.pool = IF allowed THEN Enqueue(@, h, "write") ELSE @]
  /\ UNCHANGED notLk

\* pool.get_or_create(..): a pooled connection, or a look at the store.
CallToolPoolGranted(h) ==
  /\ locks.pc[h] = "pool_wait"
  /\ CanWrite(locks.pool, h)
  /\ locks' = [locks EXCEPT !.pool = [Dequeue(@) EXCEPT !.writer = h],
                      !.pc[h] = IF locks.cached THEN "upstream" ELSE "lookup",
                      !.store = IF locks.cached THEN @ ELSE Enqueue(@, h, "read")]
  /\ UNCHANGED notLk

\* get_or_create: the target is read under the store lock, which is dropped
\* before connect.
GetOrCreateRead(h) ==
  /\ locks.pc[h] = "lookup"
  /\ CanRead(locks.store, h)
  /\ \E found \in BOOLEAN :
       locks' = [locks EXCEPT !.store = Dequeue(@),
                        !.pc[h] = IF found THEN "connect" ELSE "idle",
                        !.pool.writer = IF found THEN @ ELSE "none"]
  /\ UNCHANGED notLk

\* self.connect(..).await
ConnectUpstream(h) ==
  /\ locks.pc[h] = "connect"
  /\ \E ok \in BOOLEAN :
       locks' = [locks EXCEPT !.cached = ok,
                        !.pc[h] = IF ok THEN "upstream" ELSE "idle",
                        !.pool.writer = IF ok THEN @ ELSE "none"]
  /\ UNCHANGED notLk

\* svc.call_tool(req).await returns; the pool guard is dropped with the
\* function's locals.
CallToolReturn(h) ==
  /\ locks.pc[h] = "upstream"
  /\ locks' = [locks EXCEPT !.pc[h] = "idle", !.pool.writer = "none"]
  /\ UNCHANGED notLk

\* ListenerManager::new: state.read().await, the guard a temporary of the
\* for loop's iterator expression.
NewLockStore ==
  /\ locks.pc["mgr"] = "boot"
  /\ locks' = [locks EXCEPT !.pc["mgr"] = "new_wait", !.store = Enqueue(@, "mgr", "read")]
  /\ UNCHANGED notLk

NewStoreGranted ==
  /\ locks.pc["mgr"] = "new_wait"
  /\ CanRead(locks.store, "mgr")
  /\ locks' = [locks EXCEPT !.store = [Dequeue(@) EXCEPT !.readers["mgr"] = @ + 1],
                      !.pc["mgr"] = "new_loop"]
  /\ UNCHANGED notLk

\* mgr.start_listener(..).await for the next listener: self.state.read().await
NewStartListener ==
  /\ locks.pc["mgr"] = "new_loop"
  /\ locks.todo > 0
  /\ locks' = [locks EXCEPT !.pc["mgr"] = "start_wait", !.store = Enqueue(@, "mgr", "read")]
  /\ UNCHANGED notLk

\* start_listener: the listener is cloned under the lock; then the task is
\* spawned and the ready signal awaited.
StartListenerRead ==
  /\ locks.pc["mgr"] = "start_wait"
  /\ CanRead(locks.store, "mgr")
  /\ locks' = [locks EXCEPT !.store = Dequeue(@), !.pc["mgr"] = "ready_wait"]
  /\ UNCHANGED notLk

\* The select! of start_listener is over.
StartListenerReturn ==
  /\ locks.pc["mgr"] = "ready_wait"
  /\ locks' = [locks EXCEPT !.pc["mgr"] = IF locks.todo > 0 THEN "new_loop" ELSE "run",
                      !.todo = IF @ > 0 THEN @ - 1 ELSE @]
  /\ UNCHANGED notLk

\* The for loop of new is over: its guard is dropped.
NewEnd ==
  /\ locks.pc["mgr"] = "new_loop"
  /\ locks.todo = 0
  /\ locks' = [locks EXCEPT !.store.readers["mgr"] = @ - 1, !.pc["mgr"] = "run"]
  /\ UNCHANGED notLk

\* run: an Insert or an Update is received and start_listener called.
RunStartListener ==
  /\ locks.pc["mgr"] = "run"
  /\ locks' = [locks EXCEPT !.pc["mgr"] = "start_wait", !.store = Enqueue(@, "mgr", "read")]
  /\ UNCHANGED notLk

\* targets_create_handler / targets_delete_handler: app.state.write().await
AdminLockStore ==
  /\ locks.pc["admin"] = "idle"
  /\ locks' = [locks EXCEPT !.pc["admin"] = "write_wait", !.store = Enqueue(@, "admin", "write")]
  /\ UNCHANGED notLk

\* The target is inserted or removed and the guard dropped.
AdminWrite ==
  /\ locks.pc["admin"] = "write_wait"
  /\ CanWrite(locks.store, "admin")
  /\ locks' = [locks EXCEPT !.store = Dequeue(@), !.pc["admin"] = "idle"]
  /\ UNCHANGED notLk

\* ------------------------------------------------------------------ specifications
\* What the environment does to one routed request: nothing, the connection
\* cannot be built, or the upstream operation fails.
Envs ==
  { [connOk |-> TRUE, upOk |-> TRUE], [connOk |-> FALSE, upOk |-> TRUE],
    [connOk |-> TRUE, upOk |-> FALSE] }

\* The configuration plane acting on the targets of the store.
ConfigTargets ==
  \/ \E n \in Names : \E k \in KindsOf(n) : InsertTarget(n, k)
  \/ \E n \in Names : StoreRemoveTarget(n)

\* The configuration plane acting on the policies of the store.
ConfigPolicies ==
  \/ \E rs \in RuleSetNames : InsertRbac(rs)
  \/ \E rs \in RuleSetNames : RemoveRbac(rs)

\* The MCP Relay routing requests to one target, under a changing configuration.
Next ==
  \/ ConfigTargets
  \/ ConfigPolicies
  \/ \E c \in Identities, nm \in ReqNames, env \in Envs :
       CallTool(c, nm, env.connOk, env.upOk)
  \/ \E c \in Identities, nm \in ReqNames, env \in Envs :
       GetPrompt(c, nm, env.connOk, env.upOk)
  \/ \E c \in Identities, nm \in ReqNames, env \in Envs :
       ReadResource(c, nm, env.connOk, env.upOk)
  \/ \E n \in Names, cancelOk \in BOOLEAN : RemoveTarget(n, cancelOk)

Spec == Init /\ [][Next]_vars

\* The MCP Relay answering list_* by fan-out, under a changing set of targets.
NextList ==
  \/ ConfigTargets
  \/ \E createFail, callFail \in SUBSET Names : ListTools(createFail, callFail)
  \/ \E createFail, callFail \in SUBSET Names : ListPrompts(createFail, callFail)
  \/ \E createFail, callFail \in SUBSET Names : ListResources(createFail, callFail)
  \/ \E createFail, callFail \in SUBSET Names : ListResourceTemplates(createFail, callFail)
  \/ \E n \in Names, cancelOk \in BOOLEAN : RemoveTarget(n, cancelOk)

SpecList == Init /\ [][NextList]_vars

\* The A2A listener serving concurrent requests, under a changing set of targets.
NextA2a ==
  \/ ConfigTargets
  \/ \E s \in 1..MaxA2a, n \in Names, connOk \in BOOLEAN : AgentCardHandler(s, n, connOk)
  \/ \E s \in 1..MaxA2a, n \in Names, connOk \in BOOLEAN : AgentCallHandler(s, n, connOk)
  \/ \E s \in 1..MaxA2a : A2aDone(s)

SpecA2a == Init /\ [][NextA2a]_vars
\* The ListenerManager under a changing set of listeners.
NextLm ==
  \/ \E n \in LNames : UpsertListener(n)
  \/ \E n \in LNames : StoreRemoveListener(n)
  \/ CloseChannel
  \/ CancelRoot
  \/ \E n \in LNames : NewNext(n)
  \/ NewReturn
  \/ \E t \in TaskIds : JoinNextLoop(t)
  \/ RecvInsert
  \/ RecvUpdate
  \/ RecvRemove
  \/ LoopClosed
  \/ LoopCancelled
  \/ StartListener
  \/ SelectReady
  \/ SelectReadyErr
  \/ \E t \in TaskIds : SelectJoinNext(t)
  \/ SelectTimeout
  \/ SelectCancelled
  \/ \E t \in TaskIds : TaskReady(t)
  \/ \E t \in TaskIds : TaskFail(t)
  \/ \E t \in TaskIds : TaskExit(t)

InitLmSpec ==
  /\ InitRelay
  /\ InitBr
  /\ InitOa
  /\ InitRest
  /\ \E ls \in SUBSET LNames : InitLm(ls)

SpecLm == InitLmSpec /\ [][NextLm]_vars

\* ListenerManager::new and start_listener run on, and a start_listener
\* waiting in its select sees the cancelled token.
MgrProgress ==
  \/ \E n \in LNames : NewNext(n)
  \/ NewReturn
  \/ StartListener
  \/ SelectCancelled

\* select! polls its arms in random order, so the cancelled arm of run, ready
\* at every turn of the loop once the token is cancelled, is not passed over
\* for ever.
SpecLmFair == SpecLm /\ WF_vars(MgrProgress) /\ SF_vars(LoopCancelled)

\* The A2A agent-card endpoint under changing targets and policies.
NextCard ==
  \/ ConfigTargets
  \/ ConfigPolicies
  \/ \E c \in Identities, n \in Names, up \in SkillLists, env \in Envs,
        lk \in ListenerKinds : FetchAgentCard(c, n, up, env, lk)

SpecCard == Init /\ [][NextCard]_vars

\* The store the A2A bridge runs against: a stdio target and an A2A target.
InitBridge ==
  /\ targets = [n \in Names |-> IF n = TA THEN [kind |-> "stdio", ver |-> 1]
                                           ELSE [kind |-> "a2a", ver |-> 2]]
  /\ policies = {}
  /\ nextVer = 3
  /\ by_name = EmptyPool
  /\ a2a = [s \in 1..MaxA2a |-> Idle]
  /\ last = InitLast
  /\ InitLm({})
  /\ InitBr
  /\ InitOa
  /\ InitRest

\* The A2A call endpoint: one proxied request after the other.
NextBridge ==
  \/ \E n \in Names, hdr \in HeaderValues, bodyOk \in BOOLEAN, env \in Envs :
       ProxyRequest(n, hdr, bodyOk, env)
  \/ \E e \in SseEvents : UpstreamSend(e)
  \/ \E how \in {"end", "error"} : UpstreamClose(how)
  \/ ReaderNext
  \/ ClientTake
  \/ ClientLeave
  \/ ProxyDone

SpecBridge == InitBridge /\ [][NextBridge]_vars

\* The synthesizer applied to every document of at most MaxDocSize items.
InitOpenApi ==
  /\ InitRelay
  /\ InitLm({})
  /\ InitBr
  /\ \E d \in Documents : oa = [doc |-> d, result |-> NotParsed]
  /\ InitRest

NextOpenApi ==
  \/ \E order \in ParameterOrders : ParseOpenapiSchema(order)
  \/ \E order \in ParameterOrders : CreateSpecification(order)
  \/ \E order \in ParameterOrders : OutboundParseOpenapiSchema(order)

SpecOpenApi == InitOpenApi /\ [][NextOpenApi]_vars

\* Two runs of parse_openapi_schema on every document.
NextTwice ==
  \/ \E order \in ParameterOrders : ParseOpenapiSchema(order)
  \/ \E order \in ParameterOrders : ParseOpenapiSchemaAgain(order)

SpecTwice == InitOpenApi /\ [][NextTwice]_vars

\* Requests, the ListenerManager and an admin handler around the two locks.
InitLocks ==
  /\ InitRelay
  /\ InitLm({})
  /\ InitBr
  /\ InitOa
  /\ InitNz
  /\ InitDet
  /\ InitRs
  /\ \E ls \in SUBSET LNames : locks = [LkIdle EXCEPT !.todo = Cardinality(ls)]

NextLocks ==
  \/ \E h \in Handlers :
       \/ CallToolValidate(h)
       \/ CallToolLockPool(h)
       \/ CallToolPoolGranted(h)
       \/ GetOrCreateRead(h)
       \/ ConnectUpstream(h)
       \/ CallToolReturn(h)
  \/ NewLockStore
  \/ NewStoreGranted
  \/ NewStartListener
  \/ StartListenerRead
  \/ StartListenerReturn
  \/ NewEnd
  \/ RunStartListener
  \/ AdminLockStore
  \/ AdminWrite

SpecLocks == InitLocks /\ [][NextLocks]_vars

\* Normalization of every type array of at most MaxTypes entries and of every
\* nested schema of at most MaxNodes nodes.
InitNormalize ==
  /\ InitRelay
  /\ InitLm({})
  /\ InitBr
  /\ InitOa
  /\ InitDet
  /\ InitLk
  /\ InitRs
  /\ \E s \in FlatSchemas \cup NestedSchemas :
       nz = [schema |-> s, out |-> None, again |-> None, pair |-> None]

NextNormalize ==
  \/ NormalizeSchema
  \/ NormalizeAgain
  \/ NormalizeTypes

SpecNormalize == InitNormalize /\ [][NextNormalize]_vars

\* ------------------------------------------------- reference resolution
\* The names under components.schemas; "C" is a name no document defines.
CompNames == {"A", "B"}

SchemasPrefix == "#/components/schemas/"

\* ReferenceOr::Reference { reference }: the prefix and the rest of the
\* string.
Reference(prefix, name) == [tag |-> "ref", prefix |-> prefix, name |-> name]

\* ReferenceOr::Item(schema)
Item(schema) == [tag |-> "item", schema |-> schema]

References ==
  {Reference(SchemasPrefix, n) : n \in CompNames \cup {"C"}}
    \cup {Reference("#/definitions/", "A")}

\* A schema of a kind that has no sub-schema.
StringKind == [kind |-> "string", child |-> <<>>]

\* An object with one property, or an array with its items.
WithChild(kind, child) == [kind |-> kind, child |-> child]

RefSchemas ==
  {StringKind}
    \cup {WithChild(k, c) : k \in {"object", "array"},
                            c \in References \cup {Item(StringKind)}}

RefOrSchemas == References \cup {Item(sc) : sc \in RefSchemas}

NoComponents == <<>>

\* One turn of resolve_schema_v3_0 on the reference in hand: an item is the
\* answer, with which resolve_nested_schema_v3_0 goes on; a reference is
\* stripped of its prefix, looked up, and resolved by a further call, which
\* takes one more frame unless the build made the tail call a jump.
ResolveSchemaV30 ==
  /\ refs.pc = "resolve"
  /\ LET r == refs.cur
     IN  IF r.tag = "item"
           THEN refs' = [refs EXCEPT !.pc = "nested", !.chain = 0]
           ELSE IF r.prefix # SchemasPrefix
             THEN refs' = [refs EXCEPT !.pc = "error", !.err = "InvalidReference",
                                       !.calls = 0, !.chain = 0]
           ELSE IF refs.components = NoComponents
             THEN refs' = [refs EXCEPT !.pc = "error", !.err = "MissingComponents",
                                       !.calls = 0, !.chain = 0]
           ELSE IF r.name \notin DOMAIN refs.components
             THEN refs' = [refs EXCEPT !.pc = "error", !.err = "MissingReference",
                                       !.calls = 0, !.chain = 0]
           ELSE LET chain == IF refs.tco THEN refs.chain ELSE refs.chain + 1
                IN  IF refs.calls + chain > MaxDepth
                      THEN refs' = [refs EXCEPT !.pc = "overflow"]
                      ELSE refs' = [refs EXCEPT !.cur = refs.components[r.name],
                                                !.chain = chain]
  /\ UNCHANGED notRs

\* resolve_nested_schema_v3_0 with the base schema in hand: a schema with a
\* property or with items resolves it by a call of itself, and any other kind
\* is returned as it is, through every caller.
ResolveNestedSchemaV30 ==
  /\ refs.pc = "nested"
  /\ LET schema == refs.cur.schema
     IN  IF schema.kind \in {"object", "array"}
           THEN IF refs.calls + 2 > MaxDepth
                  THEN refs' = [refs EXCEPT !.pc = "overflow"]
                  ELSE refs' = [refs EXCEPT !.cur = schema.child, !.pc = "resolve",
                                            !.calls = @ + 1, !.chain = 1]
           ELSE refs' = [refs EXCEPT !.pc = "returned", !.calls = 0]
  /\ UNCHANGED notRs

\* A document's components, the schema reference of a request body, and
\* resolve_nested_schema_v3_0 called on it.
InitResolve ==
  /\ InitRelay
  /\ InitLm({})
  /\ InitBr
  /\ InitOa
  /\ InitNz
  /\ InitDet
  /\ InitLk
  /\ \E components \in {NoComponents} \cup [CompNames -> RefOrSchemas],
        start \in RefOrSchemas, tco \in BOOLEAN :
       refs = [components |-> components, cur |-> start, pc |-> "resolve",
               err |-> "none", calls |-> 1, chain |-> 1, tco |-> tco]

NextResolve ==
  \/ ResolveSchemaV30
  \/ ResolveNestedSchemaV30

SpecResolve == InitResolve /\ [][NextResolve]_vars

\* A call in progress is not suspended for ever: the thread runs.
SpecResolveFair == SpecResolve /\ WF_vars(NextResolve)
\* ------------------------------------------------------------------ properties
\* A step of the MCP Relay: the store and the A2A requests stay as they are.
RelayStep == UNCHANGED <<targets, policies, nextVer, a2a>>

RoutedOps == {"call_tool", "get_prompt", "read_resource"}

ListOps == {"list_tools", "list_prompts", "list_resources", "list_resource_templates"}

\* The resource type a routed operation is checked as.
RType(op) ==
  CASE op = "call_tool" -> "Tool"
    [] op = "get_prompt" -> "Prompt"
    [] OTHER -> "Resource"

\* The results built with McpError::invalid_request.
InvalidRequest == {"not_allowed", "invalid_tool_name", "service_not_found"}

\* The handled request was not admitted by any rule when it was handled.
HandledDenied ==
  /\ RelayStep
  /\ last'.op \in RoutedOps
  /\ ~Validate(policies, RType(last'.op), last'.name, last'.caller)

\* C1: a call_tool, get_prompt or read_resource request that no rule admits for
\* the caller issues no operation on any upstream: the pool is neither looked up
\* nor changed and no upstream call is made.
C1_DeniedNeverContactsUpstream ==
  [][HandledDenied =>
       /\ by_name' = by_name
       /\ last'.calls = <<>>
       /\ last'.up = NoUp
       /\ last'.target = <<>>]_vars

\* C1 witness: a denied call_tool for a well-formed name whose target is
\* configured and already pooled.
C1_Witness ==
  /\ last.op = "call_tool"
  /\ last.result = "not_allowed"
  /\ SplitOnce(last.name).some
  /\ TargetOf(targets, SplitOnce(last.name).head) # NoTarget
  /\ PoolGet(by_name, SplitOnce(last.name).head) # NoUp

\* C5: a request that no rule admits is answered invalid_request("not allowed")
\* whatever the state of the target it names: configured or not, pooled or not,
\* and whether or not the name has a ':'.
C5_DenialRevealsNothing ==
  [][HandledDenied => last'.result = "not_allowed"]_vars

\* C5 witness: a denied request whose name has no ':', which an admitted caller
\* would have been told is malformed.
C5_Witness ==
  /\ last.op \in RoutedOps
  /\ last.result = "not_allowed"
  /\ ~HasColon(last.name)

\* C8: call_tool with a name without ':' returns an invalid_request error, looks
\* up no pool entry and calls no upstream, whoever calls.
C8_NoColonToolNameRejected ==
  (last.op = "call_tool" /\ ~HasColon(last.name)) =>
    /\ last.result \in InvalidRequest
    /\ last.target = <<>>
    /\ last.up = NoUp
    /\ last.calls = <<>>

\* C8 witness: an admitted caller sends a tool name without ':'.
C8_Witness ==
  /\ last.op = "call_tool"
  /\ ~HasColon(last.name)
  /\ last.result = "invalid_tool_name"

\* C9: get_prompt and read_resource with a name without ':' return an
\* invalid_request error value, as call_tool does.
C9_NoColonPromptOrResourceRejected ==
  (last.op \in {"get_prompt", "read_resource"} /\ ~HasColon(last.name)) =>
    last.result \in InvalidRequest

\* C2: at most one live UpstreamTarget exists for a target name at any moment:
\* concurrent first-use requests for one name never both construct an upstream.
LiveUpstreams(n) ==
  { <<"mcp", 0>> : x \in IF PoolGet(by_name, n) # NoUp THEN {0} ELSE {} }
    \cup { <<"a2a", s>> : s \in { r \in 1..MaxA2a : a2a[r].target = n } }

C2_AtMostOneLiveUpstream ==
  \A n \in Names : Cardinality(LiveUpstreams(n)) <= 1

\* The handled request looked up a target that the store does not hold.
HandledAbsent ==
  /\ RelayStep
  /\ last'.op \in RoutedOps
  /\ last'.target # <<>>
  /\ TargetOf(targets, last'.target) = NoTarget

\* C3: once a target is removed from the ConfigStore (and not re-added),
\* get_or_create for it fails with target-not-found: it never returns the
\* upstream cached before the removal.
C3_RemovedTargetNeverServed ==
  [][HandledAbsent => (last'.up = NoUp /\ last'.result = "service_not_found")]_vars

\* The handled request was answered with the error of a failed get_or_create.
HandledFailed ==
  /\ RelayStep
  /\ last'.op \in RoutedOps
  /\ last'.result = "service_not_found"

\* C4: a get_or_create that fails (target absent from the store and not pooled,
\* or connect failed) returns the error and leaves the pool map as it was, with
\* no entry for the name, so that the next call constructs again.
C4_FailureNotCached ==
  [][/\ (HandledAbsent /\ PoolGet(by_name, last'.target) = NoUp) =>
          last'.result = "service_not_found"
     /\ HandledFailed =>
          (by_name' = by_name /\ PoolGet(by_name', last'.target) = NoUp)]_vars

\* C4 witness: connect failed for a target the store holds, and the pool has no
\* entry for it.
C4_Witness ==
  /\ last.op \in RoutedOps
  /\ last.result = "service_not_found"
  /\ TargetOf(targets, last.target) # NoTarget
  /\ PoolGet(by_name, last.target) = NoUp

\* C10: remove_target succeeds for every kind of pooled upstream: unless the
\* cancelled child cannot be joined, it returns Ok and the pool holds no entry.
C10_RemoveSucceedsForEveryKind ==
  (last.op = "remove_target" /\ last.result # "join_error") =>
    (last.result = "ok" /\ PoolGet(by_name, last.name) = NoUp)

\* The sub-results of a list operation, by target, as the handler maps them.
SubOf(op) ==
  CASE op = "list_tools" -> SubTools
    [] op = "list_prompts" -> SubPrompts
    [] op = "list_resources" -> SubResources
    [] OTHER -> SubTemplates

\* The inner names a target serves for a list operation.
Catalog(op, n) ==
  CASE op = "list_tools" -> InnerTools(n)
    [] op = "list_prompts" -> InnerPrompts(n)
    [] op = "list_resources" -> InnerResources(n)
    [] OTHER -> InnerTemplates(n)

\* The sub-results of the sub-calls that returned Ok, in the order of the calls.
RECURSIVE ConcatOk(_, _)
ConcatOk(calls, sub) ==
  IF calls = <<>> THEN <<>>
  ELSE (IF Head(calls).ok THEN sub[Head(calls).target] ELSE <<>>)
         \o ConcatOk(Tail(calls), sub)

\* C6: every list_* fan-out returns Ok, whichever sub-calls fail, and its result
\* is the concatenation of the sub-results of the targets that succeeded.
C6_FanOutDropsFailures ==
  last.op \in ListOps =>
    (last.result = "ok" /\ last.items = ConcatOk(last.calls, SubOf(last.op)))

\* C6 witness: a fan-out in which one sub-call failed and another returned items.
C6_Witness ==
  /\ last.op \in ListOps
  /\ \E i, j \in 1..Len(last.calls) : ~last.calls[i].ok /\ last.calls[j].ok
  /\ last.items # <<>>

\* C7: every item a list_* operation returns is named "{target}:{inner}" for a
\* target that produced it, and splitting the listed name gives back that
\* target and the inner name.
C7_ListedNamesAreComposed ==
  last.op \in ListOps =>
    \A i \in 1..Len(last.items) :
      \E j \in 1..Len(last.calls) :
        /\ last.calls[j].ok
        /\ \E k \in 1..Len(Catalog(last.op, last.calls[j].target)) :
             /\ last.items[i] =
                  Compose(last.calls[j].target, Catalog(last.op, last.calls[j].target)[k])
             /\ SplitOnce(last.items[i]).some
             /\ SplitOnce(last.items[i]).head = last.calls[j].target
             /\ SplitOnce(last.items[i]).tail = Catalog(last.op, last.calls[j].target)[k]

\* ------------------------------------------------------------------ ListenerManager properties
\* The manager receives the event at the head of the update channel.
Receives(type) ==
  /\ mgr.pc = "run" /\ events # <<>> /\ Head(events).type = type
  /\ events' = Tail(events)

\* C11: once the manager has processed Remove(name), the name is not in the
\* running map and no task spawned for the name is live.
C11_RemoveLeavesNoLiveTask ==
  [][Receives("Remove") =>
       LET n == Head(events).name
       IN  /\ running'[n] = 0
           /\ \A t \in DOMAIN tasks' : tasks'[t].name = n => ~Live(tasks'[t])]_vars

C13_RecordedOnlyAfterReady ==
  /\ [][\A n \in LNames :
          (running'[n] # running[n] /\ running'[n] # 0) =>
             /\ mgr.pc = "select" /\ running'[n] = mgr.id /\ mgr.name = n
             /\ tasks[mgr.id].st \in {"ready", "exited"}]_vars
  /\ [][(\/ SelectReadyErr \/ SelectTimeout \/ SelectCancelled
         \/ (mgr.pc = "select" /\ mgr'.pc # "select"
               /\ tasks[mgr.id].st = "failed")) =>
          /\ ~Live(tasks'[mgr.id])
          /\ running'[mgr.name] = 0]_vars

\* ListenerManager::new has started two listeners: the first sent ready and
\* is recorded, the second was aborted in start_listener and is not.
C13_Witness ==
  /\ mgr.pc = "new" /\ Len(tasks) = 2
  /\ tasks[1].st = "ready" /\ running[tasks[1].name] = 1
  /\ tasks[2].st = "aborted" /\ running[tasks[2].name] = 0

\* C14: once the root token is cancelled run returns, and when it has
\* returned every task ever spawned is off run_set and not live.
C14_CancelStopsEveryTask ==
  /\ cancelled ~> (mgr.pc = "done")
  /\ [](mgr.pc = "done" =>
          \A t \in DOMAIN tasks : tasks[t].joined /\ ~Live(tasks[t]))

\* run has returned on cancellation with a task that no entry of the running
\* map names aborted and awaited.
C14_Witness ==
  /\ cancelled /\ ~closed /\ mgr.pc = "done"
  /\ \E t \in DOMAIN tasks :
       /\ tasks[t].st = "aborted" /\ tasks[t].joined
       /\ running[tasks[t].name] # t

\* ------------------------------------------------------------------ A2A relay properties
\* The messages of the "message" events of an upstream stream, in order;
\* an event whose data is no message contributes none.
RECURSIVE Messages(_)
Messages(evs) ==
  IF evs = <<>> THEN <<>>
  ELSE IF Head(evs).event = "message" /\ Decode(Head(evs).data).ok
    THEN <<Decode(Head(evs).data).msg>> \o Messages(Tail(evs))
    ELSE Messages(Tail(evs))

\* The messages the client has been handed, in order.
DeliveredMsgs == [i \in 1..Len(br.delivered) |-> Decode(br.delivered[i]).msg]

IsPrefix(p, q) == Len(p) <= Len(q) /\ \A i \in 1..Len(p) : p[i] = q[i]

\* C15: what a listening client is handed, then what the channel holds, is
\* at every moment a prefix of the messages of the upstream's "message"
\* events; an event of another name leaves the reader running and the channel
\* as it is; and when the stream is over the client has been handed every one
\* of those messages.
C15_SseBridgeDeliversEveryMessage ==
  /\ [](br.result = "Streaming" /\ br.rx =>
          IsPrefix(DeliveredMsgs \o br.chan, Messages(br.evs)))
  /\ [][(/\ br.reader = "reading" /\ br.pos <= Len(br.evs)
         /\ br.evs[br.pos].event # "message"
         /\ br'.pos # br.pos) =>
          /\ br'.reader = "reading" /\ br'.pos = br.pos + 1
          /\ br'.chan = br.chan /\ br'.delivered = br.delivered]_vars
  /\ [](/\ br.result = "Streaming" /\ br.rx
        /\ br.upEnd # "open" /\ br.reader # "reading" /\ br.chan = <<>>
        => DeliveredMsgs = Messages(br.evs))

\* Content-Type values that name application/json, and text/event-stream.
JsonHeaders ==
  { HeaderOf(<<"application", "/", "json">>),
    HeaderOf(<<"application", "/", "json", ";", "charset=utf-8">>),
    HeaderOf(<<"Application", "/", "JSON">>) }

EventStreamHeaders == { HeaderOf(<<"text", "/", "event-stream">>) }

RECURSIVE AdmittedSkills(_, _, _, _)
AdmittedSkills(pols, target, who, skills) ==
  IF skills = <<>> THEN <<>>
  ELSE (IF \E rs \in pols : \E rule \in RuleSetRules(rs) :
             /\ rule.rtype = "Tool" /\ rule.who = who
             /\ rule.id = target \o <<Colon>> \o Head(skills)
          THEN <<Head(skills)>> ELSE <<>>)
       \o AdmittedSkills(pols, target, who, Tail(skills))

\* C17: the card fetch_agent_card returns carries exactly the upstream skills
\* admitted for the caller, in upstream order.
C17_CardSkillsAreTheAdmittedOnes ==
  [][(card' # card /\ card'.result = "ok") =>
       card'.skills =
         AdmittedSkills(policies, card'.target, card'.caller, card'.upstream)]_vars

\* A card was returned with one skill kept and another dropped.
C17_Witness ==
  /\ card.result = "ok"
  /\ card.skills # <<>> /\ Len(card.skills) < Len(card.upstream)
\* ------------------------------------------------------------------ OpenAPI synthesizer properties
\* The operation a synthesized tool was made from: the one at its path.
SourceOf(t) == oa.doc.paths[t.upstream.path]

SeqRange(s) == {s[i] : i \in DOMAIN s}

\* C18: for every document of either version, the keys of the top-level
\* properties of every synthesized tool's input schema are among body,
\* header, query and path.
C18_TopLevelPropertiesAreTheFourBags ==
  \A i \in DOMAIN oa.result.tools :
    DOMAIN oa.result.tools[i].tool.input_schema.properties
      \subseteq {"body", "header", "query", "path"}

\* The sub-object of one parameter type lists exactly the required parameters
\* of that type, and is itself listed iff one of them is required.
ParamsAgree(t, type) ==
  LET op == SourceOf(t)
      schema == t.tool.input_schema
      mine == {i \in DOMAIN op.parameters : op.parameters[i].location = type}
  IN /\ \A i \in mine :
          /\ type \in DOMAIN schema.properties
          /\ op.parameters[i].name \in SeqRange(schema.properties[type].required)
               <=> \E j \in mine : /\ op.parameters[j].name = op.parameters[i].name
                                   /\ op.parameters[j].required
     /\ type \in SeqRange(schema.required)
          <=> \E i \in mine : op.parameters[i].required

\* The body is listed iff the operation has a required application/json body.
BodyAgrees(t) ==
  BODY_NAME \in SeqRange(t.tool.input_schema.required)
    <=> /\ SourceOf(t).request_body.present
        /\ SourceOf(t).request_body.media = "application/json"
        /\ SourceOf(t).request_body.required

\* C19: in every synthesized tool, a parameter's name is in the required list
\* of its header, query or path sub-object iff the operation marks the
\* parameter required, and a sub-object (body, header, query, path) is in the
\* top-level required list iff the operation marks it, or one of its fields,
\* required.
C19_RequiredMirrorsTheSource ==
  \A i \in DOMAIN oa.result.tools :
    /\ \A type \in ParameterTypes : ParamsAgree(oa.result.tools[i], type)
    /\ BodyAgrees(oa.result.tools[i])

\* C20: synthesis of a document with an operation that has no operationId
\* fails with InformationRequired: the operation is neither skipped nor
\* turned into a tool.
C20_MissingOperationIdFails ==
  (/\ oa.result # NotParsed
   /\ \E i \in DOMAIN oa.doc.paths : oa.doc.paths[i].operation_id = None)
    => oa.result = Err("InformationRequired")
\* C23: two runs of parse_openapi_schema on the same document yield the same
\* output: the same tools in the same order, with the same input schemas, the
\* order of every required list included.
C23_SynthesisIsDeterministic ==
  (oa2 # NotParsed) => oa2 = oa.result

\* ------------------------------------------------------------------ 3.1 normalization properties
NonNull(types) ==
  LET NotNull(t) == t # "null"
  IN SelectSeq(types, NotNull)

HasNull(types) == \E i \in DOMAIN types : types[i] = "null"

\* C21: the normalized type of a type array is its first non-null entry and
\* nullable is true iff "null" occurs in it; an array of "null" only
\* normalizes to the type "null"; normalizing the output again changes nothing.
C21_TypeArrayNormalization ==
  LET types == nz.schema.type.of
  IN /\ (nz.out # None /\ nz.schema.type.array /\ NonNull(types) # <<>>)
          => /\ nz.out[1].type = TypeString(NonNull(types)[1])
             /\ nz.out[1].nullable <=> HasNull(types)
     /\ (nz.out # None /\ nz.schema.type.array /\ types # <<>> /\ NonNull(types) = <<>>)
          => nz.out[1].type = TypeString("null")
     /\ (nz.again # None) => nz.again = nz.out

\* What normalization at every depth makes of a schema: every type array
\* replaced, nothing else touched.
RECURSIVE Normalized(_)
Normalized(schema) ==
  LET types == schema.type.of
  IN [schema EXCEPT
        !.type = IF ~schema.type.array THEN @
                 ELSE IF NonNull(types) # <<>> THEN TypeString(NonNull(types)[1])
                 ELSE IF HasNull(types) THEN TypeString("null")
                 ELSE @,
        !.nullable = IF schema.type.array /\ NonNull(types) # <<>> /\ HasNull(types)
                     THEN TRUE ELSE @,
        !.items = [i \in DOMAIN @ |-> Normalized(@[i])],
        !.properties = [i \in DOMAIN @ |-> Normalized(@[i])],
        !.branches = [i \in DOMAIN @ |-> Normalized(@[i])]]

\* C22: normalization reaches every nesting depth: the type arrays in object
\* properties, in array items and in every branch of anyOf, oneOf and allOf
\* are normalized, and the number and order of the branches and every other
\* keyword stay as they are.
C22_NormalizationIsRecursive ==
  (nz.out # None /\ nz.schema \in NestedSchemas) => nz.out[1] = Normalized(nz.schema)
\* ------------------------------------------------------------------ lock properties
\* The task awaits something: a lock, a connection, an upstream, a listener.
Suspended(t) ==
  locks.pc[t] \in {"validate", "pool_wait", "lookup", "connect", "upstream",
                "new_wait", "start_wait", "ready_wait", "write_wait"}

Queued(lock, t) == \E i \in DOMAIN lock.queue : lock.queue[i].task = t

\* C24: no request holds the pool lock while its upstream operation (or the
\* connection to the upstream) is in flight.
C24_PoolLockNotHeldDuringUpstream ==
  \A h \in Handlers : locks.pc[h] \in {"connect", "upstream"} => locks.pool.writer # h

\* C25: no task is suspended while it holds the ConfigStore lock.
C25_StoreLockNotHeldAcrossAwait ==
  \A t \in LockTasks :
    (locks.store.readers[t] > 0 \/ locks.store.writer = t) => ~Suspended(t)

\* A task that holds the store lock awaits it again behind a writer, which
\* awaits the task's guard.
StoreDeadlock ==
  \E t \in LockTasks : \E i, j \in DOMAIN locks.store.queue :
    /\ locks.store.readers[t] > 0
    /\ i < j
    /\ locks.store.queue[i].mode = "write"
    /\ locks.store.queue[j].task = t

\* C26: no deadlock: no task awaits the ConfigStore lock while it holds it,
\* no task awaits the pool lock while it holds the store lock, and no holder
\* of the store lock awaits a second read behind a queued writer.
C26_DeadlockFree ==
  /\ \A t \in LockTasks :
       (locks.store.readers[t] > 0 \/ locks.store.writer = t)
         => ~Queued(locks.store, t) /\ ~Queued(locks.pool, t)
  /\ ~StoreDeadlock
\* ------------------------------------------------------------------ ListenerManager properties, continued
\* C27: when start_listener returns, the task it spawned is recorded in the
\* running map, or has been aborted, or has ended; the completion of another
\* task during the wait does not leave it live and unrecorded.
C27_StartListenerLeavesNoStray ==
  [][(mgr.pc = "select" /\ mgr'.pc # "select") =>
       \/ running'[mgr.name] = mgr.id
       \/ ~Live(tasks'[mgr.id])]_vars

\* C28: between two steps of the manager's loops, every listener name has at
\* most one live task, and every live task is the one recorded under its name.
C28_OneRecordedTaskPerName ==
  mgr.pc \in {"new", "run", "done"} =>
    /\ \A n \in LNames :
         Cardinality({t \in DOMAIN tasks : tasks[t].name = n /\ Live(tasks[t])}) <= 1
    /\ \A t \in DOMAIN tasks : Live(tasks[t]) => running[tasks[t].name] = t

(***************************************************************************)
(* A2A bridge properties, continued                                        *)
(***************************************************************************)

\* The reader task is suspended in to_client_tx.send: its next event is a
\* message it can decode, the receiver is alive and the channel is full.
SendSuspended ==
  /\ br.reader = "reading" /\ br.rx
  /\ br.pos <= Len(br.evs)
  /\ br.evs[br.pos].event = "message"
  /\ Decode(br.evs[br.pos].data).ok
  /\ Len(br.chan) = ChanCap

\* C29: the bridge's channel never holds more than its capacity of
\* undelivered messages, and while the reader is suspended on a send into the
\* full channel no step moves it further along the upstream's events: only
\* the client taking a message (or leaving) changes the channel.
C29_BridgeBufferIsBounded ==
  /\ [](Len(br.chan) <= ChanCap)
  /\ [][SendSuspended => /\ br'.pos = br.pos
                         /\ Len(br'.chan) <= Len(br.chan)]_vars

\* The channel is full while a further message of the upstream waits unread.
C29_Witness ==
  /\ SendSuspended
  /\ Len(br.delivered) = 0

(***************************************************************************)
(* Reference resolution properties                                         *)
(***************************************************************************)

\* C30: every resolution ends: for every document and every reference,
\* cyclic or not, the call returns a schema or an error.
C30_ResolutionTerminates == <>(refs.pc \in {"returned", "error"})

====
